---- MODULE Spec2Model ----
(***************************************************************************)
(* Recording control of the telehealth application: the serverless         *)
(* handler (api/recording.js) and the local token & recording server, both *)
(* tracking active recordings in an in-memory Map keyed by room name and   *)
(* delegating the capture to the LiveKit egress service.                   *)
(*                                                                         *)
(* A request occupies a slot from its arrival to the delivery of its       *)
(* response.  Each action is one run of handler code between two           *)
(* suspension points (await) of the JavaScript event loop.                 *)
(***************************************************************************)
EXTENDS Integers, Sequences, FiniteSets, Bags, TLC

\* ------------------------------------------------------------------ bounds

\* Requests that may be in flight at the same time.
MaxReq == 2
\* Egress sessions the external service hands out.
MaxEgress == 2
\* Clock ticks observed by new Date().
MaxTime == 1
\* The browser's Date.now() advances in steps of ClockStep milliseconds up to
\* MaxDateNow.
ClockStep == 5000
MaxDateNow == 15000

\* Room names a caller may send; "" stands for a missing or empty parameter.
Rooms == {"room-A", "room-B"}
RoomParams == Rooms \cup {""}
\* Identities; "" stands for a missing or empty parameter.
IdentityParams == {"", "alice"}
\* Egress ids a caller may send: 0 stands for a missing parameter; an id the
\* service has not handed out is unknown to it.
EgressIdParams == 0..MaxEgress
Methods == {"GET", "POST", "OPTIONS"}
Actions == {"start", "stop", "status", "other"}
Deployments == {"serverless", "local"}
Credentials == {"LIVEKIT_API_KEY", "LIVEKIT_API_SECRET", "AZURE_ACCOUNT_NAME",
                "AZURE_ACCOUNT_KEY", "AZURE_CONTAINER_NAME"}

VARIABLES
    deployment,        \* which of the two servers runs
    unset,             \* the credentials missing from process.env
    activeRecordings,  \* the Map: room -> record, NoRecord when absent
    egress,            \* the external service: sessions by id (index)
    now,               \* the clock read by new Date()
    inflight,          \* the bag of handlers suspended at an await
    resp,              \* the response sent by the last step, if any
    client,            \* the state of the browser's recording controls
    memo               \* createToken and the verifier's HMAC, computed once

vars == <<deployment, unset, activeRecordings, egress, now, inflight, resp, client,
          memo>>

\* ------------------------------------------------------------- data values

NoRecord == [egressId |-> 0, startedBy |-> "", startedAt |-> <<>>, filepath |-> <<>>]
NoRequest == [method |-> "", action |-> "", room |-> "", identity |-> "", egressId |-> 0]
NoBody == [none |-> TRUE]

\* What a client sends: the parameters of its action (room and identity to
\* start, room and egressId to stop, room for the status), the others missing.
RequestsBy(methods) ==
    [method : methods, action : {"start"}, room : RoomParams,
     identity : IdentityParams, egressId : {0}]
    \cup [method : methods, action : {"stop"}, room : RoomParams,
          identity : {""}, egressId : EgressIdParams]
    \cup [method : methods, action : {"status"}, room : RoomParams,
          identity : {""}, egressId : {0}]

\* The requests of the documented endpoints (POST to start and to stop, GET
\* for the status), an OPTIONS preflight, and a request for anything else.
Requests ==
    {q \in RequestsBy({"GET", "POST"}) :
        q.method = (IF q.action = "status" THEN "GET" ELSE "POST")}
    \cup {[NoRequest EXCEPT !.method = "OPTIONS"],
          [NoRequest EXCEPT !.method = "GET", !.action = "other"]}

\* A response: the request it answers, the status code, the JSON body, the
\* number of calls of the egress service the request made, and what the
\* handler ran after to send it (the arrival of the request, or an awaited
\* promise that resolved or rejected).
NoResponse == [req |-> NoRequest, status |-> 0, body |-> NoBody, calls |-> 0,
               after |-> ""]

\* A handler: where it stands, its request, its local variables, the calls of
\* the egress service it has made and, once done, its response.
NewHandler == [pc |-> "new", req |-> NoRequest, filepath |-> <<>>,
               targetEgressId |-> 0, recordingInfo |-> NoRecord,
               calls |-> 0, status |-> 0, body |-> NoBody]

\* The recording controls of CustomVideoConference as mounted: the values of
\* its useState hooks (0 stands for null), the fetch its handlers await, the
\* browser's Date.now() and, to measure against, the instant at which the
\* component learned that the recording had started (-1 before that).
NewClient == [isRecording |-> FALSE, recordingLoading |-> FALSE, egressId |-> 0,
              recordingStartTime |-> 0, canStopRecording |-> FALSE,
              timer |-> 0, pending |-> "none", dateNow |-> 0, began |-> -1]

\* createToken and the HMAC of a verifier are pure functions of a few inputs:
\* a server that issues tokens has their values for the inputs of the model
\* in memo, computed once at its start; a server that issues none has none.
NoMemo == [createToken |-> <<>>, issuable |-> <<>>, verify |-> <<>>]

\* Map.has(room)
Has(room) == room \in Rooms /\ activeRecordings[room] # NoRecord

\* Map.get(room): undefined (NoRecord) for a key that is not in the map.
Get(room) == IF room \in Rooms THEN activeRecordings[room] ELSE NoRecord

\* Date.prototype.toISOString of the clock value, as tokens of the string.
DigitStr == <<"0", "1", "2", "3", "4", "5", "6", "7", "8", "9">>
ToISOString(t) ==
    <<"1970-01-01T00", ":", "00", ":", DigitStr[((t \div 10) % 10) + 1],
      DigitStr[(t % 10) + 1], ".", "000Z">>

\* String.prototype.replace(/[:.]/g, '-')
ReplaceColonDot(s) ==
    [k \in 1..Len(s) |-> IF s[k] \in {":", "."} THEN "-" ELSE s[k]]

\* `recordings/${room}/${timestamp}.ogg`
Filepath(room, t) ==
    <<"recordings/", room, "/">> \o ReplaceColonDot(ToISOString(t)) \o <<".ogg">>

\* identity || 'unknown'
StartedBy(identity) == IF identity = "" THEN "unknown" ELSE identity

Respond(s, status, body) == [s EXCEPT !.pc = "done", !.status = status, !.body = body]

\* ------------------------------------------------- the Map's two mutations

\* activeRecordings.set(room, record)
MapSet(room, record) == [activeRecordings EXCEPT ![room] = record]

\* activeRecordings.clear() in the place of activeRecordings.delete(room).
MapDelete_Clear(room) == [r \in Rooms |-> NoRecord]

\* activeRecordings.delete(room): no effect for a key that is not in the map.
MapDelete(room) ==
    IF room \in Rooms THEN [activeRecordings EXCEPT ![room] = NoRecord]
    ELSE activeRecordings

\* ------------------------------------- serverless handler, api/recording.js

\* startRecording without its membership check.
startRecording_NoMembershipCheck(s) ==
    [s EXCEPT !.pc = "startEgress",
              !.filepath = Filepath(s.req.room, now),
              !.calls = @ + 1]

\* startRecording up to its await: the membership check, the output path and
\* the call of startRoomCompositeEgress.
startRecording(s) ==
    IF Has(s.req.room)
    THEN LET existing == Get(s.req.room) IN
         Respond(s, 409, [error |-> "Recording already in progress",
                          startedBy |-> existing.startedBy,
                          egressId |-> existing.egressId])
    ELSE [s EXCEPT !.pc = "startEgress",
                   !.filepath = Filepath(s.req.room, now),
                   !.calls = @ + 1]

\* The record startRecording tracks once the egress service has answered.
startRecordingRecord(s, egressId) ==
    [egressId |-> egressId,
     startedBy |-> StartedBy(s.req.identity),
     startedAt |-> ToISOString(now),
     filepath |-> s.filepath]

\* startRecording's result after the await.
startRecordingResult(s, egressId) ==
    Respond(s, 200, [success |-> TRUE, egressId |-> egressId,
                     filepath |-> s.filepath, message |-> "Recording started"])

\* stopRecording resolving to the caller's egressId whenever one is given.
stopRecording_PrefersEgressId(s) ==
    LET found == s.req.room # "" /\ Has(s.req.room)
        recordingInfo == IF found THEN Get(s.req.room) ELSE NoRecord
        targetEgressId == IF s.req.egressId # 0 THEN s.req.egressId
                          ELSE recordingInfo.egressId
    IN  IF targetEgressId = 0
        THEN Respond(s, 404, [error |-> "No active recording found for this room"])
        ELSE [s EXCEPT !.pc = "stopEgress",
                       !.targetEgressId = targetEgressId,
                       !.recordingInfo = recordingInfo,
                       !.calls = @ + 1]

\* stopRecording without the check of the resolved egress id.
stopRecording_NoNotFound(s) ==
    LET found == s.req.room # "" /\ Has(s.req.room)
        recordingInfo == IF found THEN Get(s.req.room) ELSE NoRecord
        targetEgressId == IF found THEN recordingInfo.egressId ELSE s.req.egressId
    IN  [s EXCEPT !.pc = "stopEgress",
                  !.targetEgressId = targetEgressId,
                  !.recordingInfo = recordingInfo,
                  !.calls = @ + 1]

\* stopRecording answering 404 for an egressId that no record of the Map holds.
stopRecording_LooksUpEgressId(s) ==
    LET found == s.req.room # "" /\ Has(s.req.room)
        recordingInfo == IF found THEN Get(s.req.room) ELSE NoRecord
        targetEgressId == IF found THEN recordingInfo.egressId ELSE s.req.egressId
    IN  IF targetEgressId = 0
           \/ \A r \in Rooms : activeRecordings[r].egressId # targetEgressId
        THEN Respond(s, 404, [error |-> "No active recording found for this room"])
        ELSE [s EXCEPT !.pc = "stopEgress",
                       !.targetEgressId = targetEgressId,
                       !.recordingInfo = recordingInfo,
                       !.calls = @ + 1]

\* stopRecording up to its await: the resolution of the egress id.
stopRecording(s) ==
    LET found == s.req.room # "" /\ Has(s.req.room)
        recordingInfo == IF found THEN Get(s.req.room) ELSE NoRecord
        targetEgressId == IF found THEN recordingInfo.egressId ELSE s.req.egressId
    IN  IF targetEgressId = 0
        THEN Respond(s, 404, [error |-> "No active recording found for this room"])
        ELSE [s EXCEPT !.pc = "stopEgress",
                       !.targetEgressId = targetEgressId,
                       !.recordingInfo = recordingInfo,
                       !.calls = @ + 1]

\* The Map after stopRecording's await, with the delete left out.
stopRecordingMap_KeepsRecord(s) == activeRecordings

\* The Map after stopRecording's await, with the record of the stopped session
\* deleted whichever key was supplied.
stopRecordingMap_BySessionId(s) ==
    [r \in Rooms |-> IF r = s.req.room \/ activeRecordings[r].egressId = s.targetEgressId
                     THEN NoRecord ELSE activeRecordings[r]]

\* The Map after stopRecording's await: if (room) activeRecordings.delete(room)
stopRecordingMap(s) ==
    IF s.req.room # "" THEN MapDelete(s.req.room) ELSE activeRecordings

\* stopRecording's result after the await; res.json leaves out a key whose
\* value is undefined (recordingInfo?.filepath of a null recordingInfo).
stopRecordingResult(s) ==
    Respond(s, 200,
        IF s.recordingInfo = NoRecord
        THEN [success |-> TRUE, egressId |-> s.targetEgressId,
              message |-> "Recording stopped"]
        ELSE [success |-> TRUE, egressId |-> s.targetEgressId,
              filepath |-> s.recordingInfo.filepath,
              message |-> "Recording stopped"])

\* getRecordingStatus answering 404 for a room without a record.
getRecordingStatus_NotFound(s) ==
    LET recordingInfo == Get(s.req.room) IN
    IF recordingInfo = NoRecord
    THEN Respond(s, 404, [isRecording |-> FALSE])
    ELSE Respond(s, 200, [isRecording |-> TRUE,
                          egressId |-> recordingInfo.egressId,
                          startedBy |-> recordingInfo.startedBy,
                          startedAt |-> recordingInfo.startedAt])

\* getRecordingStatus
getRecordingStatus(s) ==
    LET recordingInfo == Get(s.req.room) IN
    Respond(s, 200,
        IF recordingInfo = NoRecord
        THEN [isRecording |-> FALSE]
        ELSE [isRecording |-> TRUE,
              egressId |-> recordingInfo.egressId,
              startedBy |-> recordingInfo.startedBy,
              startedAt |-> recordingInfo.startedAt])

\* module.exports of api/recording.js, from the arrival of the request to its
\* first await or its response.
ServerlessHandler(q) ==
    LET s == [NewHandler EXCEPT !.req = q] IN
    IF q.method = "OPTIONS" THEN Respond(s, 200, NoBody)
    ELSE IF "LIVEKIT_API_KEY" \in unset \/ "LIVEKIT_API_SECRET" \in unset
    THEN Respond(s, 500,
            [error |-> "Server not configured. Missing LiveKit credentials."])
    ELSE IF "AZURE_ACCOUNT_NAME" \in unset \/ "AZURE_ACCOUNT_KEY" \in unset
            \/ "AZURE_CONTAINER_NAME" \in unset
    THEN Respond(s, 500,
            [error |-> "Server not configured. Missing Azure Blob Storage credentials."])
    ELSE CASE q.action = "start" ->
                IF q.room = ""
                THEN Respond(s, 400, [error |-> "Missing room parameter"])
                ELSE startRecording(s)
           [] q.action = "stop" ->
                IF q.room = "" /\ q.egressId = 0
                THEN Respond(s, 400, [error |-> "Missing room or egressId parameter"])
                ELSE stopRecording(s)
           [] q.action = "status" ->
                IF q.room = ""
                THEN Respond(s, 400, [error |-> "Missing room parameter"])
                ELSE getRecordingStatus(s)
           [] OTHER ->
                Respond(s, 400, [error |-> "Invalid action. Use: start, stop, or status"])

\* The catch of module.exports.
ServerlessCatch(s) ==
    Respond(s, 500, [error |-> "Recording operation failed", details |-> "upstream"])

\* ------------------------------------------- local token & recording server

\* /start-recording without the check of the room parameter.
LocalStartRecording_NoRoomCheck(s) ==
    IF Has(s.req.room)
    THEN LET existing == Get(s.req.room) IN
         Respond(s, 409, [error |-> "Recording already in progress",
                          startedBy |-> existing.startedBy,
                          egressId |-> existing.egressId])
    ELSE [s EXCEPT !.pc = "startEgress",
                   !.filepath = Filepath(s.req.room, now),
                   !.calls = @ + 1]

\* /start-recording after parseBody, up to the await of the egress service.
LocalStartRecording(s) ==
    IF s.req.room = ""
    THEN Respond(s, 400, [error |-> "Missing room parameter"])
    ELSE IF Has(s.req.room)
    THEN LET existing == Get(s.req.room) IN
         Respond(s, 409, [error |-> "Recording already in progress",
                          startedBy |-> existing.startedBy,
                          egressId |-> existing.egressId])
    ELSE [s EXCEPT !.pc = "startEgress",
                   !.filepath = Filepath(s.req.room, now),
                   !.calls = @ + 1]

\* The record /start-recording tracks once the egress service has answered.
LocalStartRecordingRecord(s, egressId) ==
    [egressId |-> egressId,
     startedBy |-> StartedBy(s.req.identity),
     startedAt |-> ToISOString(now),
     filepath |-> s.filepath]

\* The response of /start-recording after the await.
LocalStartRecordingResult(s, egressId) ==
    Respond(s, 200, [success |-> TRUE, egressId |-> egressId,
                     filepath |-> s.filepath, message |-> "Recording started"])

\* The catch of /start-recording.
LocalStartRecordingCatch(s) ==
    Respond(s, 500, [error |-> "Failed to start recording", details |-> "upstream"])

\* /stop-recording without the check of its two parameters.
LocalStopRecording_NoParameterCheck(s) ==
    LET found == s.req.room # "" /\ Has(s.req.room)
        recordingInfo == IF found THEN Get(s.req.room) ELSE NoRecord
        targetEgressId == IF found THEN recordingInfo.egressId ELSE s.req.egressId
    IN  IF targetEgressId = 0
        THEN Respond(s, 404, [error |-> "No active recording found for this room"])
        ELSE [s EXCEPT !.pc = "stopEgress",
                       !.targetEgressId = targetEgressId,
                       !.recordingInfo = recordingInfo,
                       !.calls = @ + 1]

\* /stop-recording after parseBody, up to the await of the egress service.
LocalStopRecording(s) ==
    IF s.req.room = "" /\ s.req.egressId = 0
    THEN Respond(s, 400, [error |-> "Missing room or egressId parameter"])
    ELSE
    LET found == s.req.room # "" /\ Has(s.req.room)
        recordingInfo == IF found THEN Get(s.req.room) ELSE NoRecord
        targetEgressId == IF found THEN recordingInfo.egressId ELSE s.req.egressId
    IN  IF targetEgressId = 0
        THEN Respond(s, 404, [error |-> "No active recording found for this room"])
        ELSE [s EXCEPT !.pc = "stopEgress",
                       !.targetEgressId = targetEgressId,
                       !.recordingInfo = recordingInfo,
                       !.calls = @ + 1]

\* The Map after the await of /stop-recording.
LocalStopRecordingMap(s) ==
    IF s.req.room # "" THEN MapDelete(s.req.room) ELSE activeRecordings

\* The response of /stop-recording after the await; JSON.stringify leaves out
\* a key whose value is undefined.
LocalStopRecordingResult(s) ==
    Respond(s, 200,
        IF s.recordingInfo = NoRecord
        THEN [success |-> TRUE, egressId |-> s.targetEgressId,
              message |-> "Recording stopped"]
        ELSE [success |-> TRUE, egressId |-> s.targetEgressId,
              filepath |-> s.recordingInfo.filepath,
              message |-> "Recording stopped"])

\* The catch of /stop-recording.
LocalStopRecordingCatch(s) ==
    Respond(s, 500, [error |-> "Failed to stop recording", details |-> "upstream"])

\* /recording-status
LocalRecordingStatus(s) ==
    IF s.req.room = ""
    THEN Respond(s, 400, [error |-> "Missing room parameter"])
    ELSE LET recordingInfo == Get(s.req.room) IN
         Respond(s, 200,
            IF recordingInfo = NoRecord
            THEN [isRecording |-> FALSE]
            ELSE [isRecording |-> TRUE,
                  egressId |-> recordingInfo.egressId,
                  startedBy |-> recordingInfo.startedBy,
                  startedAt |-> recordingInfo.startedAt])

\* The request listener of http.createServer, from the arrival of the request
\* to its first await or its response; the action stands for the pathname.
LocalHandler(q) ==
    LET route == [NoRequest EXCEPT !.method = q.method, !.action = q.action]
        s == [NewHandler EXCEPT !.req = route]
    IN
    IF q.method = "OPTIONS" THEN Respond(s, 200, NoBody)
    ELSE IF q.action = "start" /\ q.method = "POST" THEN [s EXCEPT !.pc = "parseBody"]
    ELSE IF q.action = "stop" /\ q.method = "POST" THEN [s EXCEPT !.pc = "parseBody"]
    ELSE IF q.action = "status" /\ q.method = "GET"
    THEN LocalRecordingStatus([s EXCEPT !.req = q])
    ELSE Respond(s, 404, [error |-> "Not found"])

\* ------------------------------------------------- the egress service

\* startRoomCompositeEgress resolved: a new session with the next id.
EgressStarted(room) ==
    Append(egress, [room |-> room, active |-> TRUE])

\* The service can end the session: it has started it and not ended it yet.
\* For any other id stopEgress rejects.
EgressRunning(egressId) ==
    egressId \in 1..Len(egress) /\ egress[egressId].active

\* stopEgress resolved: the session is ended.
EgressStopped(egressId) == [egress EXCEPT ![egressId].active = FALSE]

\* ---------------------------------------------------------------- actions

Init ==
    /\ deployment \in Deployments
    /\ unset = {}
    /\ activeRecordings = [r \in Rooms |-> NoRecord]
    /\ egress = <<>>
    /\ now = 0
    /\ inflight = EmptyBag
    /\ resp = NoResponse
    /\ client = NewClient
    /\ memo = NoMemo

\* A handler has run from `from` (a bag: empty for a new request, else the
\* suspended handler that resumed) to s, after the event `after`: it is
\* suspended at an await, or it has sent its response and the request is over.
Settle(from, s, after) ==
    IF s.pc = "done"
    THEN /\ inflight' = inflight (-) from
         /\ resp' = [req |-> s.req, status |-> s.status, body |-> s.body,
                     calls |-> s.calls, after |-> after]
    ELSE /\ inflight' = (inflight (-) from) (+) SetToBag({s})
         /\ resp' = NoResponse

\* A request arrives and its handler runs to its first await or its response.
Receive(q) ==
    /\ BagCardinality(inflight) < MaxReq
    /\ Settle(EmptyBag, IF deployment = "serverless" THEN ServerlessHandler(q)
                        ELSE LocalHandler(q),
              "arrival")
    /\ UNCHANGED <<client, memo, deployment, unset, activeRecordings, egress, now>>

\* parseBody resolves with the body b: the local handler goes on to its next
\* await or its response.
ParseBodyResolves(h, b) ==
    /\ h.pc = "parseBody"
    /\ b.method = h.req.method
    /\ b.action = h.req.action
    /\ LET s == [h EXCEPT !.req = b] IN
       Settle(SetToBag({h}), IF b.action = "start" THEN LocalStartRecording(s)
                             ELSE LocalStopRecording(s),
              "parseBody resolved")
    /\ UNCHANGED <<client, memo, deployment, unset, activeRecordings, egress, now>>

\* parseBody rejects (malformed JSON, request error): the handler's catch.
ParseBodyRejects(h) ==
    /\ h.pc = "parseBody"
    /\ Settle(SetToBag({h}), IF h.req.action = "start"
                             THEN LocalStartRecordingCatch(h)
                             ELSE LocalStopRecordingCatch(h),
              "parseBody rejected")
    /\ UNCHANGED <<client, memo, deployment, unset, activeRecordings, egress, now>>

\* startRoomCompositeEgress resolves, with the membership check made again
\* before the record is tracked.
StartEgressResolves_ChecksAgain(h) ==
    /\ h.pc = "startEgress"
    /\ Len(egress) < MaxEgress
    /\ LET egressId == Len(egress) + 1 IN
           /\ egress' = EgressStarted(h.req.room)
           /\ activeRecordings' =
                IF Has(h.req.room) THEN activeRecordings
                ELSE MapSet(h.req.room, startRecordingRecord(h, egressId))
           /\ Settle(SetToBag({h}),
                     IF Has(h.req.room)
                     THEN Respond(h, 409, [error |-> "Recording already in progress"])
                     ELSE startRecordingResult(h, egressId),
              "startEgress resolved")
    /\ UNCHANGED <<client, memo, deployment, unset, now>>

\* startRoomCompositeEgress resolves: the record is tracked, 200 is answered.
StartEgressResolves(h) ==
    /\ h.pc = "startEgress"
    /\ Len(egress) < MaxEgress
    /\ LET egressId == Len(egress) + 1 IN
           /\ egress' = EgressStarted(h.req.room)
           /\ activeRecordings' =
                MapSet(h.req.room, IF deployment = "serverless"
                                   THEN startRecordingRecord(h, egressId)
                                   ELSE LocalStartRecordingRecord(h, egressId))
           /\ Settle(SetToBag({h}),
                     IF deployment = "serverless"
                     THEN startRecordingResult(h, egressId)
                     ELSE LocalStartRecordingResult(h, egressId),
              "startEgress resolved")
    /\ UNCHANGED <<client, memo, deployment, unset, now>>

\* startRoomCompositeEgress rejects, with the record tracked before the await.
StartEgressRejects_TrackedBeforeAwait(h) ==
    /\ h.pc = "startEgress"
    /\ activeRecordings' = MapSet(h.req.room, startRecordingRecord(h, 0))
    /\ Settle(SetToBag({h}), IF deployment = "serverless" THEN ServerlessCatch(h)
                             ELSE LocalStartRecordingCatch(h),
              "startEgress rejected")
    /\ UNCHANGED <<client, memo, deployment, unset, egress, now>>

\* startRoomCompositeEgress rejects and nothing catches it: the request is
\* dropped without a response.
StartEgressRejects_Unanswered(h) ==
    /\ h.pc = "startEgress"
    /\ inflight' = inflight (-) SetToBag({h})
    /\ resp' = NoResponse
    /\ UNCHANGED <<client, memo, deployment, unset, activeRecordings, egress, now>>

\* startRoomCompositeEgress rejects: the handler's catch.
StartEgressRejects(h) ==
    /\ h.pc = "startEgress"
    /\ Settle(SetToBag({h}), IF deployment = "serverless" THEN ServerlessCatch(h)
                             ELSE LocalStartRecordingCatch(h),
              "startEgress rejected")
    /\ UNCHANGED <<client, memo, deployment, unset, activeRecordings, egress, now>>

\* stopEgress resolves: the room's record is deleted, 200 is answered.
StopEgressResolves(h) ==
    /\ h.pc = "stopEgress"
    /\ EgressRunning(h.targetEgressId)
    /\ egress' = EgressStopped(h.targetEgressId)
    /\ activeRecordings' = IF deployment = "serverless" THEN stopRecordingMap(h)
                           ELSE LocalStopRecordingMap(h)
    /\ Settle(SetToBag({h}), IF deployment = "serverless" THEN stopRecordingResult(h)
                             ELSE LocalStopRecordingResult(h),
              "stopEgress resolved")
    /\ UNCHANGED <<client, memo, deployment, unset, now>>

\* stopEgress rejects, with the record deleted before the await.
StopEgressRejects_DeletedBeforeAwait(h) ==
    /\ h.pc = "stopEgress"
    /\ activeRecordings' = MapDelete(h.req.room)
    /\ Settle(SetToBag({h}), IF deployment = "serverless" THEN ServerlessCatch(h)
                             ELSE LocalStopRecordingCatch(h),
              "stopEgress rejected")
    /\ UNCHANGED <<client, memo, deployment, unset, egress, now>>

\* stopEgress rejects and the handler calls it a second time.
StopEgressRejects_Retries(h) ==
    /\ h.pc = "stopEgress"
    /\ Settle(SetToBag({h}), IF h.calls < 2 THEN [h EXCEPT !.calls = @ + 1]
                             ELSE IF deployment = "serverless" THEN ServerlessCatch(h)
                             ELSE LocalStopRecordingCatch(h),
              "stopEgress rejected")
    /\ UNCHANGED <<client, memo, deployment, unset, activeRecordings, egress, now>>

\* stopEgress rejects: the handler's catch.
StopEgressRejects(h) ==
    /\ h.pc = "stopEgress"
    /\ Settle(SetToBag({h}), IF deployment = "serverless" THEN ServerlessCatch(h)
                             ELSE LocalStopRecordingCatch(h),
              "stopEgress rejected")
    /\ UNCHANGED <<client, memo, deployment, unset, activeRecordings, egress, now>>

Next ==
    \/ \E q \in Requests : Receive(q)
    \/ \E h \in BagToSet(inflight), b \in Requests : ParseBodyResolves(h, b)
    \/ \E h \in BagToSet(inflight) : ParseBodyRejects(h)
    \/ \E h \in BagToSet(inflight) : StartEgressResolves(h)
    \/ \E h \in BagToSet(inflight) : StartEgressRejects(h)
    \/ \E h \in BagToSet(inflight) : StopEgressResolves(h)
    \/ \E h \in BagToSet(inflight) : StopEgressRejects(h)

Spec == Init /\ [][Next]_vars

\* Time passes.
Tick ==
    /\ now < MaxTime
    /\ now' = now + 1
    /\ resp' = NoResponse
    /\ UNCHANGED <<client, memo, deployment, unset, activeRecordings, egress, inflight>>

\* The same servers with a running clock.
SpecClock == Init /\ [][Next \/ Tick]_vars

\* The environments a server is started in: every credential set, or one of
\* them missing from process.env.
EnvConfigs == {{}} \cup {{c} : c \in Credentials}

InitEnv ==
    /\ deployment \in Deployments
    /\ unset \in EnvConfigs
    /\ activeRecordings = [r \in Rooms |-> NoRecord]
    /\ egress = <<>>
    /\ now = 0
    /\ inflight = EmptyBag
    /\ resp = NoResponse
    /\ client = NewClient
    /\ memo = NoMemo

\* The same servers, with or without their credentials.
SpecEnv == InitEnv /\ [][Next]_vars

\* ------------------------------------------------------- observing a step

\* The handlers that resumed, and those that suspended, in the step.
Left == {h \in BagToSet(inflight) : CopiesIn(h, inflight') < CopiesIn(h, inflight)}
Joined == {h \in BagToSet(inflight') : CopiesIn(h, inflight') > CopiesIn(h, inflight)}

\* The step ran the code of request q from the reading of its parameters to
\* its first call of the egress service or to its response: at the arrival of
\* the request, or for /start-recording and /stop-recording once parseBody has
\* resolved.
Dispatched(q) ==
    /\ \A h \in Left : h.pc = "parseBody"
    /\ \/ resp'.req = q /\ resp'.after \in {"arrival", "parseBody resolved"}
       \/ \E h \in Joined : h.req = q /\ h.pc \in {"startEgress", "stopEgress"}

\* The step made no call of the egress service and changed nothing it keeps.
NoEgressCall ==
    /\ resp'.calls = 0
    /\ \A h \in Joined : h.pc \notin {"startEgress", "stopEgress"}
    /\ egress' = egress

\* The requests that reach startRecording, stopRecording, getRecordingStatus.
StartRequests == {q \in Requests : q.action = "start" /\ q.room # ""}
StopRequests == {q \in Requests : q.action = "stop" /\ (q.room # "" \/ q.egressId # 0)}
StatusRequests == {q \in Requests : q.action = "status" /\ q.room # ""}

\* What the server in the current state answers to a status request for
\* room, to a start request for room, and to a stop request for room without
\* egressId: the handler's state after the run from the request's arrival
\* (for the local server, from parseBody's resolution).
StatusOf(room) ==
    LET q == [NoRequest EXCEPT !.method = "GET", !.action = "status", !.room = room]
    IN  IF deployment = "serverless" THEN ServerlessHandler(q) ELSE LocalHandler(q)
StartOf(room, identity) ==
    LET q == [NoRequest EXCEPT !.method = "POST", !.action = "start",
                               !.room = room, !.identity = identity]
    IN  IF deployment = "serverless" THEN ServerlessHandler(q)
        ELSE LocalStartRecording([NewHandler EXCEPT !.req = q])
StopOf(room, egressId) ==
    LET q == [NoRequest EXCEPT !.method = "POST", !.action = "stop",
                               !.room = room, !.egressId = egressId]
    IN  IF deployment = "serverless" THEN ServerlessHandler(q)
        ELSE LocalStopRecording([NewHandler EXCEPT !.req = q])

\* No stopEgress has resolved so far: every session the service started runs.
AllRunning == \A id \in DOMAIN egress : egress[id].active

\* ------------------------------------------------------------------ claims

\* C1: a start request for a room that has a record in the Map is answered 409
\* with the egressId and startedBy of that record, calls the egress service
\* not at all and leaves the Map as it is.
C1_StartConflict ==
    [][\A q \in StartRequests :
        (Has(q.room) /\ Dispatched(q)) =>
            /\ resp'.req = q
            /\ resp'.status = 409
            /\ resp'.body = [error |-> "Recording already in progress",
                             startedBy |-> Get(q.room).startedBy,
                             egressId |-> Get(q.room).egressId]
            /\ NoEgressCall
            /\ activeRecordings' = activeRecordings]_vars

\* A start for a room with a record has been answered 409.
C1_Witness ==
    /\ resp.status = 409
    /\ resp.req \in StartRequests
    /\ Has(resp.req.room)
    /\ resp.body.egressId = Get(resp.req.room).egressId
    /\ resp.body.egressId # 0

\* C2: a start that passed the membership check and whose call of the egress
\* service rejects inserts no record (neither its step up to the call nor the
\* step of the rejection changes the Map) and is answered 500 with an error.
C2_StartFailure ==
    [][/\ \A q \in StartRequests : Dispatched(q) => activeRecordings' = activeRecordings
       /\ \A h \in Left : h.pc = "startEgress" => resp'.req = h.req
       /\ resp'.after = "startEgress rejected" =>
            /\ \E h \in Left : h.pc = "startEgress" /\ h.req = resp'.req
            /\ resp'.req \in StartRequests
            /\ resp'.status = 500
            /\ "error" \in DOMAIN resp'.body
            /\ activeRecordings' = activeRecordings
            /\ egress' = egress]_vars

\* A start whose call of the egress service rejected has been answered, and
\* its room has no record.
C2_Witness ==
    /\ resp.after = "startEgress rejected"
    /\ resp.status = 500
    /\ resp.calls = 1
    /\ ~Has(resp.req.room)

\* C3, status before any successful start: while the service has started no
\* session for a room, its status is 200 with isRecording false alone.
C3_StatusBeforeStart ==
    \A R \in Rooms :
        (\A id \in DOMAIN egress : egress[id].room # R) =>
            /\ StatusOf(R).status = 200
            /\ StatusOf(R).body = [isRecording |-> FALSE]

\* C3, status right after a start answered 200: isRecording with the egressId
\* the start returned and the identity given to it, or "unknown".
C3_StatusAfterStart ==
    resp.after = "startEgress resolved" =>
        /\ resp.status = 200
        /\ StatusOf(resp.req.room).status = 200
        /\ StatusOf(resp.req.room).body.isRecording
        /\ StatusOf(resp.req.room).body.egressId = resp.body.egressId
        /\ StatusOf(resp.req.room).body.startedBy = StartedBy(resp.req.identity)

\* C3, "and no later stop": while no stopEgress has resolved, the session and
\* the starter that the status of a recording room reports stay the same.
C3_StatusStable ==
    \A R \in Rooms :
        (Has(R) /\ AllRunning /\ AllRunning') =>
            /\ StatusOf(R)'.body.isRecording
            /\ StatusOf(R)'.body.egressId = StatusOf(R).body.egressId
            /\ StatusOf(R)'.body.startedBy = StatusOf(R).body.startedBy

\* C3: status(R) before any successful start(R) answers isRecording false and
\* nothing else; after a start(R, identity) answered 200 with egressId S, and
\* no stop since, it answers isRecording true with egressId S and startedBy
\* the identity of that start, or "unknown".
C3_StatusMatchesStart ==
    /\ []C3_StatusBeforeStart
    /\ []C3_StatusAfterStart
    /\ [][C3_StatusStable]_vars

\* C4: when a stop with a room has had its session ended by the service, it is
\* answered 200, the room has no record, and a status request for the room
\* then answers isRecording false.
C4_StopByRoom ==
    (resp.after = "stopEgress resolved" /\ resp.req.room # "") =>
        /\ resp.status = 200
        /\ resp.body.success
        /\ ~Has(resp.req.room)
        /\ StatusOf(resp.req.room).status = 200
        /\ StatusOf(resp.req.room).body = [isRecording |-> FALSE]

\* A stop by room resolved from the room's record has been answered 200.
C4_Witness ==
    /\ resp.after = "stopEgress resolved"
    /\ resp.req.room \in Rooms
    /\ resp.status = 200
    /\ "filepath" \in DOMAIN resp.body
    /\ ~Has(resp.req.room)

\* C5: a stop with an egressId and no room, ended by the service, is answered
\* 200 and removes no record; every room that had a record still reports
\* isRecording and still answers a start with 409.
C5_StopBySessionId ==
    [][(resp'.after = "stopEgress resolved" /\ resp'.req.room = "") =>
        /\ resp'.status = 200
        /\ activeRecordings' = activeRecordings
        /\ \A R \in Rooms : Has(R) =>
              /\ StatusOf(R)'.body.isRecording
              /\ StartOf(R, "")'.status = 409]_vars

\* A stop by the egressId that a room's record holds has been answered 200,
\* and the record is still there.
C5_Witness ==
    /\ resp.after = "stopEgress resolved"
    /\ resp.req.room = ""
    /\ resp.status = 200
    /\ \E R \in Rooms :
          /\ Has(R)
          /\ Get(R).egressId = resp.req.egressId
          /\ StatusOf(R).body.isRecording
          /\ StartOf(R, "").status = 409

\* C6: a stop that resolved an egress id and whose stopEgress rejects leaves
\* the Map as it is (neither its step up to the call nor the step of the
\* rejection changes it) and is answered 500 with an error.
C6_StopFailure ==
    [][/\ \A q \in StopRequests : Dispatched(q) => activeRecordings' = activeRecordings
       /\ \A h \in Left : h.pc = "stopEgress" => resp'.req = h.req
       /\ resp'.after = "stopEgress rejected" =>
            /\ \E h \in Left : h.pc = "stopEgress" /\ h.req = resp'.req
            /\ resp'.req \in StopRequests
            /\ resp'.status = 500
            /\ "error" \in DOMAIN resp'.body
            /\ activeRecordings' = activeRecordings
            /\ egress' = egress]_vars

\* A stop by room whose stopEgress rejected has been answered 500, and the
\* room's record is still there.
C6_Witness ==
    /\ resp.after = "stopEgress rejected"
    /\ resp.status = 500
    /\ Has(resp.req.room)

\* C7: a stop for a room with a record takes the egress id and the filepath
\* from the record, whatever egressId the caller sent; any other stop takes
\* the caller's egressId and knows no filepath.  The id taken is the one the
\* service is asked to end and the one answered, with the record's filepath
\* or no filepath at all.
C7_StopResolution ==
    [][/\ \A q \in StopRequests : Dispatched(q) =>
            IF Has(q.room)
            THEN \E h \in Joined : /\ h.req = q
                                   /\ h.pc = "stopEgress"
                                   /\ h.targetEgressId = Get(q.room).egressId
                                   /\ h.recordingInfo = Get(q.room)
            ELSE q.egressId # 0 =>
                 \E h \in Joined : /\ h.req = q
                                   /\ h.pc = "stopEgress"
                                   /\ h.targetEgressId = q.egressId
                                   /\ h.recordingInfo = NoRecord
       /\ resp'.after = "stopEgress resolved" =>
            \E h \in Left :
                /\ h.pc = "stopEgress"
                /\ h.req = resp'.req
                /\ egress' = EgressStopped(h.targetEgressId)
                /\ resp'.body.egressId = h.targetEgressId
                /\ IF h.recordingInfo = NoRecord
                   THEN "filepath" \notin DOMAIN resp'.body
                   ELSE /\ "filepath" \in DOMAIN resp'.body
                        /\ resp'.body.filepath = h.recordingInfo.filepath]_vars

\* A stop with a room that had a record and with another egressId has been
\* answered with the record's egressId and filepath.
C7_Witness ==
    /\ resp.after = "stopEgress resolved"
    /\ resp.req.room \in Rooms
    /\ resp.req.egressId # 0
    /\ resp.body.egressId # resp.req.egressId
    /\ "filepath" \in DOMAIN resp.body

\* C8: a stop for a room without a record and without egressId is answered
\* 404, calls the egress service not at all and leaves the Map as it is.
C8_StopNotFound ==
    [][\A q \in StopRequests :
        (q.room # "" /\ q.egressId = 0 /\ ~Has(q.room) /\ Dispatched(q)) =>
            /\ resp'.req = q
            /\ resp'.status = 404
            /\ NoEgressCall
            /\ activeRecordings' = activeRecordings]_vars

\* A stop for a room without a record and without egressId has been answered.
C8_Witness ==
    /\ resp.req \in StopRequests
    /\ resp.req.room \in Rooms
    /\ resp.req.egressId = 0
    /\ resp.status = 404
    /\ resp.calls = 0
    /\ ~Has(resp.req.room)

\* The tracker knows a session for the request: its room has a record, or a
\* record holds its egressId.
KnownToTracker(q) ==
    \/ Has(q.room)
    \/ q.egressId # 0 /\ \E R \in Rooms : Get(R).egressId = q.egressId

RunningFor(room) ==
    {id \in DOMAIN egress : egress[id].room = room /\ egress[id].active}

\* C11: a start whose startRoomCompositeEgress resolves while its room has a
\* record (the record of a start that passed the membership check with it,
\* before either tracked a record) is answered 200 all the same and replaces
\* the record: the service has started two sessions for the room, and the
\* Map tracks the later one only.
C11_ConcurrentStarts ==
    [][\A h \in Left :
        (h.pc = "startEgress" /\ resp'.after = "startEgress resolved"
            /\ Has(h.req.room)) =>
        LET R == h.req.room
            old == Get(R).egressId
            new == Len(egress) + 1
        IN  /\ resp'.status = 200
            /\ resp'.body.egressId = new
            /\ activeRecordings'[R].egressId = new
            /\ egress'[new] = [room |-> R, active |-> TRUE]
            /\ egress'[old] = egress[old]
            /\ egress[old].room = R
            /\ \A r \in Rooms : activeRecordings'[r].egressId # old]_vars

\* Two starts for one room have been answered 200: the service runs two
\* sessions for the room and the Map tracks the one started last.
C11_Witness ==
    /\ resp.after = "startEgress resolved"
    /\ resp.status = 200
    /\ Cardinality(RunningFor(resp.req.room)) = 2
    /\ Get(resp.req.room).egressId = resp.body.egressId
    /\ \E id \in RunningFor(resp.req.room) :
          \A r \in Rooms : Get(r).egressId # id

\* C12: a record is tracked for a room only when the room has no record: no
\* step replaces the record of a room by another record.
C12_NoOverwrite ==
    [][\A R \in Rooms :
        (activeRecordings'[R] # activeRecordings[R] /\ activeRecordings'[R] # NoRecord)
            => ~Has(R)]_vars

\* The start requests without a room.
StartRequestsNoRoom == {q \in Requests : q.action = "start" /\ q.room = ""}

\* The request passes the credential checks that precede the routing: the
\* serverless handler has them, the local server has none.
PassesCredentialCheck == deployment = "serverless" => unset = {}

\* C13 as stated: a start request without a room is answered 400 whatever its
\* other parameters and the state of the server, calls the egress service not
\* at all and leaves the Map as it is.
C13_Original ==
    [][\A q \in StartRequestsNoRoom : Dispatched(q) =>
            /\ resp'.req = q
            /\ resp'.status = 400
            /\ NoEgressCall
            /\ activeRecordings' = activeRecordings]_vars

\* C13 as amended: a start request without a room that passes the credential
\* checks is answered 400 whatever its other parameters, the Map and the
\* handlers in flight; where a credential check fails it is answered 500.
\* Either way it calls the egress service not at all and leaves the Map as it
\* is.
C13_StartMissingRoom ==
    [][\A q \in StartRequestsNoRoom : Dispatched(q) =>
            /\ resp'.req = q
            /\ resp'.status = IF PassesCredentialCheck THEN 400 ELSE 500
            /\ NoEgressCall
            /\ activeRecordings' = activeRecordings]_vars

\* A start request without a room and with an identity has been answered 400
\* while a room had a record.
C13_Witness ==
    /\ resp.req \in StartRequestsNoRoom
    /\ resp.req.identity # ""
    /\ resp.status = 400
    /\ resp.calls = 0
    /\ \E R \in Rooms : Has(R)

\* The requests of the three recording actions.
RecordingRequests == {q \in Requests : q.action \in {"start", "stop", "status"}}

\* The step answers q with a configuration error, calls the egress service
\* not at all and leaves the Map as it is.
ConfigurationError(q) ==
    /\ resp'.req = q
    /\ resp'.status = 500
    /\ "error" \in DOMAIN resp'.body
    /\ NoEgressCall
    /\ activeRecordings' = activeRecordings

\* C14, for the serverless handler: with a credential unset, every start,
\* stop and status request is answered 500 at its arrival.
C14_ServerlessConfigurationError ==
    [][\A q \in RecordingRequests :
        (deployment = "serverless" /\ unset # {}
            /\ (resp'.req = q \/ \E h \in Joined : h.req = q)) =>
        ConfigurationError(q)]_vars

\* C14: with a credential unset, every start, stop and status request is
\* answered 500 with a configuration error, calls the egress service not at
\* all and leaves the Map as it is.
C14_ConfigurationError ==
    [][\A q \in RecordingRequests :
        (unset # {} /\ Dispatched(q)) => ConfigurationError(q)]_vars

\* --------------------------------------------- bytes, SHA-256 and HMAC

\* The sequence s as an explicit tuple: TLC keeps a function constructor
\* unevaluated and computes its body again at every application.
Tuple(s) == SubSeq(s, 1, Len(s))

\* A 32-bit word is a pair <<high half, low half>> of 16-bit numbers.
Pow2 == <<1, 2, 4, 8, 16, 32, 64, 128, 256, 512, 1024, 2048, 4096, 8192,
          16384, 32768, 65536>>

\* x & y and x ^ y of two 4-bit numbers, at [x + 1][y + 1].
AndNibble ==
 <<
    <<0, 0, 0, 0, 0, 0, 0, 0, 0, 0, 0, 0, 0, 0, 0, 0>>,
    <<0, 1, 0, 1, 0, 1, 0, 1, 0, 1, 0, 1, 0, 1, 0, 1>>,
    <<0, 0, 2, 2, 0, 0, 2, 2, 0, 0, 2, 2, 0, 0, 2, 2>>,
    <<0, 1, 2, 3, 0, 1, 2, 3, 0, 1, 2, 3, 0, 1, 2, 3>>,
    <<0, 0, 0, 0, 4, 4, 4, 4, 0, 0, 0, 0, 4, 4, 4, 4>>,
    <<0, 1, 0, 1, 4, 5, 4, 5, 0, 1, 0, 1, 4, 5, 4, 5>>,
    <<0, 0, 2, 2, 4, 4, 6, 6, 0, 0, 2, 2, 4, 4, 6, 6>>,
    <<0, 1, 2, 3, 4, 5, 6, 7, 0, 1, 2, 3, 4, 5, 6, 7>>,
    <<0, 0, 0, 0, 0, 0, 0, 0, 8, 8, 8, 8, 8, 8, 8, 8>>,
    <<0, 1, 0, 1, 0, 1, 0, 1, 8, 9, 8, 9, 8, 9, 8, 9>>,
    <<0, 0, 2, 2, 0, 0, 2, 2, 8, 8, 10, 10, 8, 8, 10, 10>>,
    <<0, 1, 2, 3, 0, 1, 2, 3, 8, 9, 10, 11, 8, 9, 10, 11>>,
    <<0, 0, 0, 0, 4, 4, 4, 4, 8, 8, 8, 8, 12, 12, 12, 12>>,
    <<0, 1, 0, 1, 4, 5, 4, 5, 8, 9, 8, 9, 12, 13, 12, 13>>,
    <<0, 0, 2, 2, 4, 4, 6, 6, 8, 8, 10, 10, 12, 12, 14, 14>>,
    <<0, 1, 2, 3, 4, 5, 6, 7, 8, 9, 10, 11, 12, 13, 14, 15>> >>
XorNibble ==
 <<
    <<0, 1, 2, 3, 4, 5, 6, 7, 8, 9, 10, 11, 12, 13, 14, 15>>,
    <<1, 0, 3, 2, 5, 4, 7, 6, 9, 8, 11, 10, 13, 12, 15, 14>>,
    <<2, 3, 0, 1, 6, 7, 4, 5, 10, 11, 8, 9, 14, 15, 12, 13>>,
    <<3, 2, 1, 0, 7, 6, 5, 4, 11, 10, 9, 8, 15, 14, 13, 12>>,
    <<4, 5, 6, 7, 0, 1, 2, 3, 12, 13, 14, 15, 8, 9, 10, 11>>,
    <<5, 4, 7, 6, 1, 0, 3, 2, 13, 12, 15, 14, 9, 8, 11, 10>>,
    <<6, 7, 4, 5, 2, 3, 0, 1, 14, 15, 12, 13, 10, 11, 8, 9>>,
    <<7, 6, 5, 4, 3, 2, 1, 0, 15, 14, 13, 12, 11, 10, 9, 8>>,
    <<8, 9, 10, 11, 12, 13, 14, 15, 0, 1, 2, 3, 4, 5, 6, 7>>,
    <<9, 8, 11, 10, 13, 12, 15, 14, 1, 0, 3, 2, 5, 4, 7, 6>>,
    <<10, 11, 8, 9, 14, 15, 12, 13, 2, 3, 0, 1, 6, 7, 4, 5>>,
    <<11, 10, 9, 8, 15, 14, 13, 12, 3, 2, 1, 0, 7, 6, 5, 4>>,
    <<12, 13, 14, 15, 8, 9, 10, 11, 4, 5, 6, 7, 0, 1, 2, 3>>,
    <<13, 12, 15, 14, 9, 8, 11, 10, 5, 4, 7, 6, 1, 0, 3, 2>>,
    <<14, 15, 12, 13, 10, 11, 8, 9, 6, 7, 4, 5, 2, 3, 0, 1>>,
    <<15, 14, 13, 12, 11, 10, 9, 8, 7, 6, 5, 4, 3, 2, 1, 0>> >>
\* x & y and x ^ y of two bytes, at [x + 1][y + 1], computed once.
AndByteTable ==
    Tuple([x \in 1..256 |-> Tuple([y \in 1..256 |->
        AndNibble[((x - 1) \div 16) + 1][((y - 1) \div 16) + 1] * 16
            + AndNibble[((x - 1) % 16) + 1][((y - 1) % 16) + 1]])])
XorByteTable ==
    Tuple([x \in 1..256 |-> Tuple([y \in 1..256 |->
        XorNibble[((x - 1) \div 16) + 1][((y - 1) \div 16) + 1] * 16
            + XorNibble[((x - 1) % 16) + 1][((y - 1) % 16) + 1]])])
AndByte(x, y) == AndByteTable[x + 1][y + 1]
XorByte(x, y) == XorByteTable[x + 1][y + 1]
And16(x, y) == AndByte(x \div 256, y \div 256) * 256 + AndByte(x % 256, y % 256)
Xor16(x, y) == XorByte(x \div 256, y \div 256) * 256 + XorByte(x % 256, y % 256)

WAnd(a, b) == <<And16(a[1], b[1]), And16(a[2], b[2])>>
WXor(a, b) == <<Xor16(a[1], b[1]), Xor16(a[2], b[2])>>
WNot(a) == <<65535 - a[1], 65535 - a[2]>>
\* Addition modulo 2^32.
WAdd(a, b) ==
    LET lo == a[2] + b[2]
        hi == a[1] + b[1] + (lo \div 65536)
    IN  <<hi % 65536, lo % 65536>>
\* a >>> n, and the rotation of a by n bits to the right, 0 < n < 32.
Shr(a, n) ==
    IF n < 16
    THEN <<a[1] \div Pow2[n + 1],
           (a[2] \div Pow2[n + 1]) + (a[1] % Pow2[n + 1]) * Pow2[17 - n]>>
    ELSE <<0, a[1] \div Pow2[n - 15]>>
Rotr(a, n) ==
    IF n < 16
    THEN <<(a[1] \div Pow2[n + 1]) + (a[2] % Pow2[n + 1]) * Pow2[17 - n],
           (a[2] \div Pow2[n + 1]) + (a[1] % Pow2[n + 1]) * Pow2[17 - n]>>
    ELSE <<(a[2] \div Pow2[n - 15]) + (a[1] % Pow2[n - 15]) * Pow2[33 - n],
           (a[1] \div Pow2[n - 15]) + (a[2] % Pow2[n - 15]) * Pow2[33 - n]>>

\* The round constants and the initial hash value of SHA-256 (FIPS 180-4).
Sha256K ==
 <<
    <<17034, 12184>>, <<28983, 17553>>, <<46528, 64463>>, <<59829, 56229>>,
    <<14678, 49755>>, <<23025, 4593>>, <<37439, 33444>>, <<43804, 24277>>,
    <<55303, 43672>>, <<4739, 23297>>, <<9265, 34238>>, <<21772, 32195>>,
    <<29374, 23924>>, <<32990, 45566>>, <<39900, 1703>>, <<49563, 61812>>,
    <<58523, 27073>>, <<61374, 18310>>, <<4033, 40390>>, <<9228, 41420>>,
    <<11753, 11375>>, <<19060, 33962>>, <<23728, 43484>>, <<30457, 35034>>,
    <<38974, 20818>>, <<43057, 50797>>, <<45059, 10184>>, <<48985, 32711>>,
    <<50912, 3059>>, <<54695, 37191>>, <<1738, 25425>>, <<5161, 10599>>,
    <<10167, 2693>>, <<11803, 8504>>, <<19756, 28156>>, <<21304, 3347>>,
    <<25866, 29524>>, <<30314, 2747>>, <<33218, 51502>>, <<37490, 11397>>,
    <<41663, 59553>>, <<43034, 26187>>, <<49739, 35696>>, <<51052, 20899>>,
    <<53650, 59417>>, <<54937, 1572>>, <<62478, 13701>>, <<4202, 41072>>,
    <<6564, 49430>>, <<7735, 27656>>, <<10056, 30540>>, <<13488, 48309>>,
    <<14620, 3251>>, <<20184, 43594>>, <<23452, 51791>>, <<26670, 28659>>,
    <<29839, 33518>>, <<30885, 25455>>, <<33992, 30740>>, <<36039, 520>>,
    <<37054, 65530>>, <<42064, 27883>>, <<48889, 41975>>, <<50801, 30962>> >>
Sha256H0 ==
 <<
    <<27145, 58983>>, <<47975, 44677>>, <<15470, 62322>>, <<42319, 62778>>,
    <<20750, 21119>>, <<39685, 26764>>, <<8067, 55723>>, <<23520, 52505>> >>

SmallSigma0(x) == WXor(WXor(Rotr(x, 7), Rotr(x, 18)), Shr(x, 3))
SmallSigma1(x) == WXor(WXor(Rotr(x, 17), Rotr(x, 19)), Shr(x, 10))
BigSigma0(x) == WXor(WXor(Rotr(x, 2), Rotr(x, 13)), Rotr(x, 22))
BigSigma1(x) == WXor(WXor(Rotr(x, 6), Rotr(x, 11)), Rotr(x, 25))
Ch(x, y, z) == WXor(WAnd(x, y), WAnd(WNot(x), z))
Maj(x, y, z) == WXor(WXor(WAnd(x, y), WAnd(x, z)), WAnd(y, z))

\* The message schedule of a block of 16 words.
RECURSIVE Schedule(_)
Schedule(w) ==
    IF Len(w) = 64 THEN w
    ELSE LET t == Len(w) + 1 IN
         Schedule(Append(w, WAdd(WAdd(SmallSigma1(w[t - 2]), w[t - 7]),
                                 WAdd(SmallSigma0(w[t - 15]), w[t - 16]))))

\* One round on the working variables v = <<a, b, ..., h>>, with the round
\* constant k and the word wt of the schedule.
T1(v, k, wt) ==
    WAdd(WAdd(WAdd(v[8], BigSigma1(v[5])), WAdd(Ch(v[5], v[6], v[7]), k)), wt)
T2(v) == WAdd(BigSigma0(v[1]), Maj(v[1], v[2], v[3]))
Round(v, t1, t2) ==
    <<WAdd(t1, t2), v[1], v[2], v[3], WAdd(v[4], t1), v[5], v[6], v[7]>>

\* The rounds s.t to 64 on the working variables s.v.
RECURSIVE Rounds(_, _)
Rounds(s, w) ==
    IF s.t > 64 THEN s.v
    ELSE Rounds([t |-> s.t + 1,
                 v |-> Round(s.v, T1(s.v, Sha256K[s.t], w[s.t]), T2(s.v))], w)

\* The hash value after one more block.
AddWords(h, v) ==
    <<WAdd(h[1], v[1]), WAdd(h[2], v[2]), WAdd(h[3], v[3]), WAdd(h[4], v[4]),
      WAdd(h[5], v[5]), WAdd(h[6], v[6]), WAdd(h[7], v[7]), WAdd(h[8], v[8])>>
Compress(h, block) == AddWords(h, Rounds([t |-> 1, v |-> h], Schedule(block)))

\* The padded message: the bytes, 0x80, zeros up to 56 modulo 64, and the
\* length in bits as a 64-bit number.
Sha256Pad(m) ==
    LET zeros == (119 - (Len(m) % 64)) % 64
        bits == Len(m) * 8
    IN  m \o <<128>> \o [i \in 1..zeros |-> 0]
          \o <<0, 0, 0, 0, (bits \div 16777216) % 256, (bits \div 65536) % 256,
               (bits \div 256) % 256, bits % 256>>

\* Big-endian bytes as words, and words as big-endian bytes.
BytesToWords(p) ==
    Tuple([i \in 1..(Len(p) \div 4) |->
            <<p[4 * i - 3] * 256 + p[4 * i - 2], p[4 * i - 1] * 256 + p[4 * i]>>])
WordsToBytes(h) ==
    Tuple([i \in 1..(4 * Len(h)) |->
            LET half == h[((i - 1) \div 4) + 1][(((i - 1) % 4) \div 2) + 1]
            IN  IF i % 2 = 1 THEN half \div 256 ELSE half % 256])

\* The hash value s.h after the blocks 1 to s.k - 1, after all the blocks.
RECURSIVE Sha256Blocks(_, _)
Sha256Blocks(s, w) ==
    IF 16 * (s.k - 1) >= Len(w) THEN s.h
    ELSE Sha256Blocks([k |-> s.k + 1,
                       h |-> Compress(s.h, SubSeq(w, 16 * s.k - 15, 16 * s.k))], w)

\* crypto.createHash('sha256').update(m).digest(): 32 bytes.
Sha256(m) ==
    WordsToBytes(Sha256Blocks([k |-> 1, h |-> Sha256H0], BytesToWords(Sha256Pad(m))))

\* crypto.createHmac('sha256', key).update(m).digest() (RFC 2104): a key
\* longer than the block of 64 bytes is hashed, a shorter one is filled up
\* with zero bytes.
ZeroPad(k0) == k0 \o [i \in 1..(64 - Len(k0)) |-> 0]
KeyBlock(key) == ZeroPad(IF Len(key) > 64 THEN Sha256(key) ELSE key)
XorBytes(k, pad) == Tuple([i \in 1..Len(k) |-> XorByte(k[i], pad)])
HmacBlock(k, m) == Sha256(XorBytes(k, 92) \o Sha256(XorBytes(k, 54) \o m))
HmacSha256(key, m) == HmacBlock(KeyBlock(key), m)

\* ------------------------------------------------------------ token text

\* A string of the token code is the sequence of its bytes.  The value of an
\* environment variable that is not set.
Undefined == "undefined"
\* The values of LIVEKIT_API_KEY and LIVEKIT_API_SECRET where they are set.
KeyValue == "devkey"
SecretValue == "secret"

\* Identities and rooms of token requests; "" is a missing or empty parameter.
TokenIdentities == <<"alice", "Noël">>
TokenRooms == <<"room-A", "room-B">>
TokenKeys == <<KeyValue, Undefined>>
TokenSecrets == <<SecretValue, Undefined>>

\* Buffer.from(str): the UTF-8 bytes of the strings in use.
Utf8(s) ==
    CASE s = "alice" -> <<97, 108, 105, 99, 101>>
      [] s = "Noël" -> <<78, 111, 195, 171, 108>>
      [] s = "room-A" -> <<114, 111, 111, 109, 45, 65>>
      [] s = "room-B" -> <<114, 111, 111, 109, 45, 66>>
      [] s = "devkey" -> <<100, 101, 118, 107, 101, 121>>
      [] s = "secret" -> <<115, 101, 99, 114, 101, 116>>
      [] s = "HS256" -> <<72, 83, 50, 53, 54>>
      [] s = "JWT" -> <<74, 87, 84>>
      [] s = "" -> <<>>

\* The decimal digits of a natural number, as JSON.stringify writes it.
RECURSIVE Digits(_)
Digits(n) == IF n < 10 THEN <<48 + n>> ELSE Append(Digits(n \div 10), 48 + (n % 10))

\* JSON.stringify of a string without characters to escape, and of a boolean.
JSONString(s) == <<34>> \o Utf8(s) \o <<34>>
JSONBoolean(b) == IF b THEN <<116, 114, 117, 101>> ELSE <<102, 97, 108, 115, 101>>

\* JSON.stringify(header): {"alg":"HS256","typ":"JWT"}
JSONHeader(header) ==
    <<123, 34, 97, 108, 103, 34, 58>> \o JSONString(header.alg)
        \o <<44, 34, 116, 121, 112, 34, 58>> \o JSONString(header.typ) \o <<125>>

\* JSON.stringify(payload): the properties in the order of the object
\* literal, one whose value is undefined left out.
JSONPayload(payload) ==
    <<123, 34, 101, 120, 112, 34, 58>> \o Digits(payload.exp)
        \o (IF payload.iss = Undefined THEN <<>>
            ELSE <<44, 34, 105, 115, 115, 34, 58>> \o JSONString(payload.iss))
        \o <<44, 34, 110, 97, 109, 101, 34, 58>> \o JSONString(payload.name)
        \o <<44, 34, 110, 98, 102, 34, 58>> \o Digits(payload.nbf)
        \o <<44, 34, 115, 117, 98, 34, 58>> \o JSONString(payload.sub)
        \o <<44, 34, 118, 105, 100, 101, 111, 34, 58, 123, 34, 114, 111, 111, 109, 34, 58>> \o JSONString(payload.video.room)
        \o <<44, 34, 114, 111, 111, 109, 74, 111, 105, 110, 34, 58>> \o JSONBoolean(payload.video.roomJoin)
        \o <<44, 34, 99, 97, 110, 80, 117, 98, 108, 105, 115, 104, 34, 58>> \o JSONBoolean(payload.video.canPublish)
        \o <<44, 34, 99, 97, 110, 83, 117, 98, 115, 99, 114, 105, 98, 101, 34, 58>> \o JSONBoolean(payload.video.canSubscribe)
        \o <<44, 34, 99, 97, 110, 80, 117, 98, 108, 105, 115, 104, 68, 97, 116, 97, 34, 58>> \o JSONBoolean(payload.video.canPublishData)
        \o <<125, 125>>

\* The base64 alphabet: A-Z, a-z, 0-9, '+', '/'.
Base64Alphabet ==
    <<
    65, 66, 67, 68, 69, 70, 71, 72, 73, 74, 75, 76, 77, 78, 79, 80, 81, 82,
    83, 84, 85, 86, 87, 88, 89, 90, 97, 98, 99, 100, 101, 102, 103, 104,
    105, 106, 107, 108, 109, 110, 111, 112, 113, 114, 115, 116, 117, 118,
    119, 120, 121, 122, 48, 49, 50, 51, 52, 53, 54, 55, 56, 57, 43, 47 >>

\* Buffer.toString('base64'): four characters for three bytes, '=' (61) for
\* the bytes the last group lacks.
Base64(b) ==
    LET n == Len(b)
        Byte(i) == IF i <= n THEN b[i] ELSE 0
    IN  Tuple([j \in 1..(4 * ((n + 2) \div 3)) |->
            LET g == 3 * ((j - 1) \div 4)
                k == (j - 1) % 4
            IN  CASE k = 0 -> Base64Alphabet[(Byte(g + 1) \div 4) + 1]
                  [] k = 1 -> Base64Alphabet[(Byte(g + 1) % 4) * 16
                                             + (Byte(g + 2) \div 16) + 1]
                  [] k = 2 -> IF g + 2 > n THEN 61
                              ELSE Base64Alphabet[(Byte(g + 2) % 16) * 4
                                                  + (Byte(g + 3) \div 64) + 1]
                  [] k = 3 -> IF g + 3 > n THEN 61
                              ELSE Base64Alphabet[(Byte(g + 3) % 64) + 1]])

\* The base64 text as it is: no character replaced, the padding kept.
UrlSafe_AsIs(s) == s

\* .replace(/\+/g, '-').replace(/\//g, '_').replace(/=/g, '')
NotPad(c) == c # 61
UrlSafe(s) ==
    SelectSeq([i \in 1..Len(s) |-> IF s[i] = 43 THEN 45
                                   ELSE IF s[i] = 47 THEN 95 ELSE s[i]], NotPad)

\* base64UrlEncode
base64UrlEncode(str) == UrlSafe(Base64(str))

\* The lifetime of a token in seconds: 24 * 60 * 60.
TokenLifetime == 24 * 60 * 60

\* The payload with the room as the subject.
TokenPayload_RoomAsSubject(identity, roomName, key, seconds) ==
    [exp |-> seconds + TokenLifetime,
     iss |-> key,
     name |-> identity,
     nbf |-> seconds,
     sub |-> roomName,
     video |-> [room |-> roomName, roomJoin |-> TRUE, canPublish |-> TRUE,
                canSubscribe |-> TRUE, canPublishData |-> TRUE]]

\* The payload createToken signs, with LIVEKIT_API_KEY = key at the second
\* seconds = Math.floor(Date.now() / 1000).
TokenPayload(identity, roomName, key, seconds) ==
    [exp |-> seconds + TokenLifetime,
     iss |-> key,
     name |-> identity,
     nbf |-> seconds,
     sub |-> identity,
     video |-> [room |-> roomName, roomJoin |-> TRUE, canPublish |-> TRUE,
                canSubscribe |-> TRUE, canPublishData |-> TRUE]]

\* What createToken signs: `${headerEncoded}.${payloadEncoded}`
SigningInput(identity, roomName, key, seconds) ==
    base64UrlEncode(JSONHeader([alg |-> "HS256", typ |-> "JWT"]))
        \o <<46>>
        \o base64UrlEncode(JSONPayload(TokenPayload(identity, roomName, key, seconds)))

\* A signature that is the hash of the secret followed by the input.
TokenSignature_KeyedHash(secret, input) ==
    UrlSafe(Base64(Sha256(Utf8(secret) \o input)))

\* The signature of createToken.
TokenSignature(secret, input) == UrlSafe(Base64(HmacSha256(Utf8(secret), input)))

\* createToken with the environment and Date.now() as arguments: the token,
\* or the TypeError of crypto.createHmac for a key that is undefined.
Signed(secret, input) == input \o <<46>> \o TokenSignature(secret, input)

\* createToken without the division of Date.now() by 1000.
createToken_Milliseconds(identity, roomName, key, secret, dateNow) ==
    IF secret = Undefined THEN [threw |-> TRUE, token |-> <<>>]
    ELSE [threw |-> FALSE,
          token |-> Signed(secret, SigningInput(identity, roomName, key, dateNow))]

createToken(identity, roomName, key, secret, dateNow) ==
    IF secret = Undefined THEN [threw |-> TRUE, token |-> <<>>]
    ELSE [threw |-> FALSE,
          token |-> Signed(secret, SigningInput(identity, roomName, key,
                                                dateNow \div 1000))]

\* What createToken returns or throws in each of the first `seconds` seconds
\* of the clock: at [identity][room][key][secret][second + 1], by the
\* positions in TokenIdentities, TokenRooms, TokenKeys and TokenSecrets.
TokenTable(seconds) ==
    Tuple([i \in 1..Len(TokenIdentities) |->
     Tuple([r \in 1..Len(TokenRooms) |->
      Tuple([k \in 1..Len(TokenKeys) |->
       Tuple([s \in 1..Len(TokenSecrets) |->
        Tuple([t \in 1..seconds |->
          createToken(TokenIdentities[i], TokenRooms[r], TokenKeys[k],
                      TokenSecrets[s], 1000 * (t - 1))])])])])])

IndexOf(seq, v) == CHOOSE i \in 1..Len(seq) : seq[i] = v

\* createToken for whoever started the recording of the room, if it has one.
IssueToken_ReadsMap(identity, roomName, key, secret, dateNow) ==
    memo.createToken[IndexOf(TokenIdentities,
                       IF Has(roomName) THEN Get(roomName).startedBy ELSE identity)]
              [IndexOf(TokenRooms, roomName)]
              [IndexOf(TokenKeys, key)][IndexOf(TokenSecrets, secret)]
              [(dateNow \div 1000) + 1]

\* createToken, read from memo: it reads the clock only through
\* Math.floor(Date.now() / 1000).
IssueToken(identity, roomName, key, secret, dateNow) ==
    memo.createToken[IndexOf(TokenIdentities, identity)][IndexOf(TokenRooms, roomName)]
                    [IndexOf(TokenKeys, key)][IndexOf(TokenSecrets, secret)]
                    [(dateNow \div 1000) + 1]

\* ------------------------------------------------------- the token endpoint

\* The servers that issue tokens: the serverless function api/token.js, the
\* local token & recording server, and the simple token server.
TokenDeployments == Deployments \cup {"simple"}

\* Identities of token requests; "" stands for a missing or empty parameter.
TokenIdentityParams == {"", "alice", "Noël"}

\* GET /token?identity=..&room=.., and the OPTIONS preflight.
TokenRequests ==
    [method : {"GET"}, action : {"token"}, room : RoomParams,
     identity : TokenIdentityParams, egressId : {0}]
    \cup {[NoRequest EXCEPT !.method = "OPTIONS", !.action = "token"]}

\* The milliseconds of Date.now() within the second of the clock.
Millis == {0, 999}

\* process.env[name]
Env(name) ==
    IF name \in unset THEN Undefined
    ELSE CASE name = "LIVEKIT_API_KEY" -> KeyValue
           [] name = "LIVEKIT_API_SECRET" -> SecretValue
           [] OTHER -> "set"

\* The response of a token handler: it runs from the arrival of the request
\* to its response without an await and calls no service.
TokenResponse(q, status, body) ==
    [req |-> q, status |-> status, body |-> body, calls |-> 0, after |-> "arrival"]

\* try { createToken } catch: 200 with the token, or 500; created is what
\* the call of createToken returns or throws.
TryCreateToken(q, created) ==
    IF created.threw
    THEN TokenResponse(q, 500, [error |-> "Failed to generate token"])
    ELSE TokenResponse(q, 200, [token |-> created.token])

\* The serverless handler, api/token.js.
ServerlessToken(q, created) ==
    IF q.method = "OPTIONS" THEN TokenResponse(q, 200, NoBody)
    ELSE IF q.identity = "" \/ q.room = ""
    THEN TokenResponse(q, 400, [error |-> "Missing identity or room parameter"])
    ELSE IF Env("LIVEKIT_API_KEY") = Undefined \/ Env("LIVEKIT_API_SECRET") = Undefined
    THEN TokenResponse(q, 500, [error |-> "Server not configured. Missing LIVEKIT_API_KEY or LIVEKIT_API_SECRET environment variables."])
    ELSE TryCreateToken(q, created)

\* The /token route of the local token & recording server.
LocalToken(q, created) ==
    IF q.method = "OPTIONS" THEN TokenResponse(q, 200, NoBody)
    ELSE IF q.identity = "" \/ q.room = ""
    THEN TokenResponse(q, 400, [error |-> "Missing identity or room parameter"])
    ELSE TryCreateToken(q, created)

\* The /token route of the simple token server.
SimpleToken(q, created) ==
    IF q.method = "OPTIONS" THEN TokenResponse(q, 200, NoBody)
    ELSE IF q.identity = "" \/ q.room = ""
    THEN TokenResponse(q, 400, [error |-> "Missing identity or room parameter"])
    ELSE IF Env("LIVEKIT_API_SECRET") = "YOUR_API_SECRET_HERE"
    THEN TokenResponse(q, 500, [error |-> "Token server not configured. Please set LIVEKIT_API_SECRET in token-server.js"])
    ELSE TryCreateToken(q, created)

\* The handler of the server that runs.
TokenHandler(q, created) ==
    CASE deployment = "serverless" -> ServerlessToken(q, created)
      [] deployment = "local" -> LocalToken(q, created)
      [] deployment = "simple" -> SimpleToken(q, created)

\* A token request arrives at the time Date.now() = 1000 * now + ms and is
\* answered; createToken runs where the handler calls it.
TokenRequest(q, ms) ==
    /\ BagCardinality(inflight) < MaxReq
    /\ resp' = TokenHandler(q, IssueToken(q.identity, q.room,
                                          Env("LIVEKIT_API_KEY"),
                                          Env("LIVEKIT_API_SECRET"),
                                          1000 * now + ms))
    /\ UNCHANGED <<client, memo, deployment, unset, activeRecordings, egress, now, inflight>>

\* The environments of a token server: LIVEKIT_API_KEY and
\* LIVEKIT_API_SECRET set or not.
TokenEnvConfigs == SUBSET {"LIVEKIT_API_KEY", "LIVEKIT_API_SECRET"}

\* ------------------------------------------------------------ token claims

\* The token requests with identity and room, and those that lack one.
ValidTokenRequests ==
    {q \in TokenRequests : q.method = "GET" /\ q.identity # "" /\ q.room # ""}
InvalidTokenRequests ==
    {q \in TokenRequests : q.method = "GET" /\ (q.identity = "" \/ q.room = "")}

\* The step answers the token request q.
Answers(q) == resp'.req = q /\ resp' # resp

\* The issuer key or the signing secret is absent.
SigningConfigurationAbsent ==
    unset \cap {"LIVEKIT_API_KEY", "LIVEKIT_API_SECRET"} # {}

\* C15: a token request without identity or room is answered 400; one with
\* both, with the issuer key or the signing secret absent, is answered 500
\* with an error and without a token.
C15_TokenErrors ==
    [][/\ \A q \in InvalidTokenRequests : Answers(q) => resp'.status = 400
       /\ \A q \in ValidTokenRequests :
            (Answers(q) /\ SigningConfigurationAbsent) =>
                /\ resp'.status = 500
                /\ "error" \in DOMAIN resp'.body
                /\ "token" \notin DOMAIN resp'.body]_vars

\* ---------------------------------------------------- reading a token back

\* The positions of the '.' separators of a token, in increasing order, and
\* its segments: what stands before, between and after the separators.
Dots(token) == {i \in 1..Len(token) : token[i] = 46}
SortedDots(token) ==
    [n \in 1..Cardinality(Dots(token)) |->
        CHOOSE i \in Dots(token) : Cardinality({j \in Dots(token) : j < i}) = n - 1]
Segments(token) ==
    LET cuts == <<0>> \o Tuple(SortedDots(token)) \o <<Len(token) + 1>> IN
    Tuple([n \in 1..(Len(cuts) - 1) |-> SubSeq(token, cuts[n] + 1, cuts[n + 1] - 1)])

\* The value of a character of the URL-safe base64 alphabet (RFC 4648, 5):
\* A-Z, a-z, 0-9, '-', '_'.
Base64UrlValue(c) ==
    CASE c \in 65..90 -> c - 65
      [] c \in 97..122 -> c - 71
      [] c \in 48..57 -> c + 4
      [] c = 45 -> 62
      [] c = 95 -> 63

\* The bytes an unpadded URL-safe base64 text stands for.
Base64UrlDecode(text) ==
    LET v == Tuple([i \in 1..Len(text) |-> Base64UrlValue(text[i])]) IN
    Tuple([j \in 1..((6 * Len(text)) \div 8) |->
        LET i == ((8 * (j - 1)) \div 6) + 1
            r == (8 * (j - 1)) % 6
        IN  CASE r = 0 -> v[i] * 4 + (v[i + 1] \div 16)
              [] r = 2 -> (v[i] % 16) * 16 + (v[i + 1] \div 4)
              [] r = 4 -> (v[i] % 4) * 64 + v[i + 1]])

\* `"name":` as bytes, for the members of the claim set.
MemberKey(name) ==
    CASE name = "exp" -> <<34, 101, 120, 112, 34, 58>>
      [] name = "iss" -> <<34, 105, 115, 115, 34, 58>>
      [] name = "name" -> <<34, 110, 97, 109, 101, 34, 58>>
      [] name = "nbf" -> <<34, 110, 98, 102, 34, 58>>
      [] name = "sub" -> <<34, 115, 117, 98, 34, 58>>
      [] name = "room" -> <<34, 114, 111, 111, 109, 34, 58>>
      [] name = "roomJoin" -> <<34, 114, 111, 111, 109, 74, 111, 105, 110, 34, 58>>
      [] name = "canPublish" -> <<34, 99, 97, 110, 80, 117, 98, 108, 105, 115, 104, 34, 58>>
      [] name = "canSubscribe" -> <<34, 99, 97, 110, 83, 117, 98, 115, 99, 114, 105, 98, 101, 34, 58>>
      [] name = "canPublishData" -> <<34, 99, 97, 110, 80, 117, 98, 108, 105, 115, 104, 68, 97, 116, 97, 34, 58>>

\* Where the value of the member name starts in the JSON text json; 0 if
\* the text has no such member.
MemberValueAt(json, name) ==
    LET key == MemberKey(name)
        at == {i \in 1..(Len(json) - Len(key) + 1) :
                  SubSeq(json, i, i + Len(key) - 1) = key}
    IN  IF at = {} THEN 0
        ELSE Len(key) + CHOOSE i \in at : \A j \in at : i <= j

\* A JSON number (natural, decimal), string (without escapes) and boolean
\* that starts at from.
RECURSIVE NumberOf(_)
NumberOf(digits) ==
    IF digits = <<>> THEN 0
    ELSE 10 * NumberOf(SubSeq(digits, 1, Len(digits) - 1)) + digits[Len(digits)] - 48
JSONNumberAt(json, from) ==
    LET end == CHOOSE i \in from..Len(json) :
                  /\ json[i] \notin 48..57
                  /\ \A j \in from..(i - 1) : json[j] \in 48..57
    IN  NumberOf(SubSeq(json, from, end - 1))
JSONStringAt(json, from) ==
    LET end == CHOOSE i \in (from + 1)..Len(json) :
                  /\ json[i] = 34
                  /\ \A j \in (from + 1)..(i - 1) : json[j] # 34
    IN  SubSeq(json, from + 1, end - 1)
JSONBooleanAt(json, from) == json[from] = 116

\* The claim set of a token: its second segment decoded and read as JSON;
\* a string member that is absent reads as <<>>.
ClaimSetOf(json) ==
    [exp |-> JSONNumberAt(json, MemberValueAt(json, "exp")),
     nbf |-> JSONNumberAt(json, MemberValueAt(json, "nbf")),
     hasIss |-> MemberValueAt(json, "iss") # 0,
     iss |-> IF MemberValueAt(json, "iss") = 0 THEN <<>>
             ELSE JSONStringAt(json, MemberValueAt(json, "iss")),
     name |-> JSONStringAt(json, MemberValueAt(json, "name")),
     sub |-> JSONStringAt(json, MemberValueAt(json, "sub")),
     room |-> JSONStringAt(json, MemberValueAt(json, "room")),
     roomJoin |-> JSONBooleanAt(json, MemberValueAt(json, "roomJoin")),
     canPublish |-> JSONBooleanAt(json, MemberValueAt(json, "canPublish")),
     canSubscribe |-> JSONBooleanAt(json, MemberValueAt(json, "canSubscribe")),
     canPublishData |-> JSONBooleanAt(json, MemberValueAt(json, "canPublishData"))]
ClaimSet(token) == ClaimSetOf(Base64UrlDecode(Segments(token)[2]))

\* The last step issued a token: it answered a token request with a token.
\* No time has passed since (Tick clears resp), so the token was issued in
\* the second now.
TokenIssued == resp.req \in TokenRequests /\ "token" \in DOMAIN resp.body

\* C16: the claim set of every issued token has nbf equal to the time of
\* issuance in whole seconds, and exp equal to nbf + 86400.
C16_Validity ==
    TokenIssued =>
        /\ ClaimSet(resp.body.token).nbf = now
        /\ ClaimSet(resp.body.token).exp = ClaimSet(resp.body.token).nbf + 86400

\* A token issued after the clock has advanced, valid from then for a day.
C16_Witness ==
    /\ TokenIssued
    /\ now = 1
    /\ ClaimSet(resp.body.token).nbf = 1
    /\ ClaimSet(resp.body.token).exp = 86401

\* The issuer a claim set names: the bytes of its iss member, Undefined for a
\* claim set without one.
IssuerOf(claims) == IF claims.hasIss THEN claims.iss ELSE Undefined
\* The value of LIVEKIT_API_KEY as the issuer of a token.
ConfiguredIssuer ==
    IF Env("LIVEKIT_API_KEY") = Undefined THEN Undefined
    ELSE Utf8(Env("LIVEKIT_API_KEY"))

\* C17: the claim set of every issued token has sub and name equal to the
\* identity of the request, iss equal to LIVEKIT_API_KEY (no iss where the
\* variable is not set), and a video grant for the room of the request with
\* roomJoin, canPublish, canSubscribe and canPublishData true.
C17_ClaimSet ==
    TokenIssued =>
        LET claims == ClaimSet(resp.body.token) IN
        /\ claims.sub = Utf8(resp.req.identity)
        /\ claims.name = Utf8(resp.req.identity)
        /\ IssuerOf(claims) = ConfiguredIssuer
        /\ claims.room = Utf8(resp.req.room)
        /\ claims.roomJoin
        /\ claims.canPublish
        /\ claims.canSubscribe
        /\ claims.canPublishData

\* A token for Noël in room-B, issued by the configured key.
C17_Witness ==
    /\ TokenIssued
    /\ resp.req.identity = "Noël"
    /\ resp.req.room = "room-B"
    /\ "LIVEKIT_API_KEY" \notin unset
    /\ ClaimSet(resp.body.token).sub = <<78, 111, 195, 171, 108>>
    /\ ClaimSet(resp.body.token).iss = <<100, 101, 118, 107, 101, 121>>
    /\ ClaimSet(resp.body.token).room = <<114, 111, 111, 109, 45, 66>>

\* The characters of the URL-safe base64 alphabet: A-Z, a-z, 0-9, '-', '_'.
Base64UrlAlphabet == (65..90) \cup (97..122) \cup (48..57) \cup {45, 95}

\* An unpadded URL-safe base64 text: characters of the alphabet, of a length
\* that a number of whole bytes encodes to.
UnpaddedBase64Url(text) ==
    /\ \A i \in 1..Len(text) : text[i] \in Base64UrlAlphabet
    /\ Len(text) % 4 # 1

\* C18: every issued token has exactly two '.' separators and three segments
\* that are not empty, none with '+' (43), '/' (47) or '=' (61): each is an
\* unpadded URL-safe base64 text.
C18_Format ==
    TokenIssued =>
        LET token == resp.body.token
            segments == Segments(token)
        IN  /\ Cardinality(Dots(token)) = 2
            /\ Len(segments) = 3
            /\ \A n \in 1..Len(segments) :
                  /\ segments[n] # <<>>
                  /\ \A i \in 1..Len(segments[n]) : segments[n][i] \notin {43, 47, 61}
                  /\ UnpaddedBase64Url(segments[n])

\* A token whose payload has a '_' where base64 has a '/', and whose
\* signature of 32 bytes has 43 characters where base64 has 44 with '='.
C18_Witness ==
    /\ TokenIssued
    /\ Cardinality(Dots(resp.body.token)) = 2
    /\ \E i \in 1..Len(Segments(resp.body.token)[2]) :
          Segments(resp.body.token)[2][i] = 95
    /\ Len(Segments(resp.body.token)[3]) = 43

\* ------------------------------------------------- verifying a signature

\* The secrets a verifier may hold, as bytes: the signing secret, the signing
\* secret followed by a zero byte, and the API key.
VerifierSecrets ==
    <<Utf8(SecretValue), Utf8(SecretValue) \o <<0>>, Utf8(KeyValue)>>

\* The tokens createToken returns with the secret set, in a row.
TokenCount ==
    Len(TokenIdentities) * Len(TokenRooms) * Len(TokenKeys) * (MaxTime + 1)
IssuableTokens(table) ==
    Tuple([n \in 1..TokenCount |->
        table[((n - 1) \div (Len(TokenRooms) * Len(TokenKeys) * (MaxTime + 1))) + 1]
             [(((n - 1) \div (Len(TokenKeys) * (MaxTime + 1))) % Len(TokenRooms)) + 1]
             [(((n - 1) \div (MaxTime + 1)) % Len(TokenKeys)) + 1]
             [1]
             [((n - 1) % (MaxTime + 1)) + 1].token])

\* The signature a verifier computes for a token with a secret: HMAC-SHA256
\* over the first two segments and the '.' between them, in unpadded URL-safe
\* base64.
SignedPart(segments) == segments[1] \o <<46>> \o segments[2]
Recompute(secret, token) ==
    UrlSafe(Base64(HmacSha256(secret, SignedPart(Segments(token)))))

\* Recompute for every verifier secret and every token of the row.
RecomputedTable(issuable) ==
    Tuple([s \in 1..Len(VerifierSecrets) |->
        Tuple([n \in 1..Len(issuable) |->
            Recompute(VerifierSecrets[s], issuable[n])])])
Recomputed(s, token) ==
    memo.verify[s][CHOOSE n \in 1..TokenCount : memo.issuable[n] = token]

\* What a token server has in memo: createToken for every input of the
\* model, the tokens it issues with a key and a secret, and what each verifier
\* recomputes for each of them.
MemoOf(table, issuable) ==
    [createToken |-> table, issuable |-> issuable,
     verify |-> RecomputedTable(issuable)]
MemoFrom(table) == MemoOf(table, IssuableTokens(table))

\* The token servers at their start.
InitToken ==
    /\ memo = MemoFrom(TokenTable(MaxTime + 1))
    /\ deployment \in TokenDeployments
    /\ unset \in TokenEnvConfigs
    /\ activeRecordings = [r \in Rooms |-> NoRecord]
    /\ egress = <<>>
    /\ now = 0
    /\ inflight = EmptyBag
    /\ resp = NoResponse
    /\ client = NewClient

\* The recording requests sent next to the token requests: one at a time, to
\* start and to stop by room, and for the status.
RecordingTraffic ==
    {q \in Requests : /\ q.room # ""
                      /\ q.egressId = 0
                      /\ q.action = "start" => q.identity # ""}

NextToken ==
    \/ \E q \in TokenRequests, ms \in Millis : TokenRequest(q, ms)
    \/ Tick
    \/ \E q \in RecordingTraffic :
          deployment \in Deployments /\ inflight = EmptyBag /\ Receive(q)
    \/ \E h \in BagToSet(inflight) : ParseBodyResolves(h, h.req)
    \/ \E h \in BagToSet(inflight) : StartEgressResolves(h)
    \/ \E h \in BagToSet(inflight) : StopEgressResolves(h)

\* The token endpoint of the three servers, next to recording traffic.
SpecToken == InitToken /\ [][NextToken]_vars

\* Two secrets are the same HMAC key: they give the same block of 64 bytes.
SameKey(a, b) == KeyBlock(a) = KeyBlock(b)

\* C19 as stated: the third segment of every issued token is the signature
\* recomputed with the signing secret, and differs from the signature
\* recomputed with any other secret.
C19_Original ==
    TokenIssued =>
        /\ Segments(resp.body.token)[3] = Recomputed(1, resp.body.token)
        /\ \A s \in 2..Len(VerifierSecrets) :
              Segments(resp.body.token)[3] # Recomputed(s, resp.body.token)

\* C19: the third segment of every issued token is the signature recomputed
\* with the signing secret; the signature recomputed with another secret
\* equals it exactly if that secret is the same HMAC key.
C19_Signature ==
    TokenIssued =>
        /\ Segments(resp.body.token)[3] = Recomputed(1, resp.body.token)
        /\ \A s \in 2..Len(VerifierSecrets) :
              (Segments(resp.body.token)[3] = Recomputed(s, resp.body.token))
                  <=> SameKey(VerifierSecrets[s], VerifierSecrets[1])

\* A token whose signature the signing secret reproduces and the API key, as
\* a secret, does not.
C19_Witness ==
    /\ TokenIssued
    /\ Segments(resp.body.token)[3] = Recomputed(1, resp.body.token)
    /\ Segments(resp.body.token)[3] # Recomputed(3, resp.body.token)
    /\ ~SameKey(VerifierSecrets[3], VerifierSecrets[1])

\* --------------------------------------------------------------- purity

\* The one token for an identity, a room, an issuer key and a second, with
\* the signing secret: its place in the row of tokens.
TokenFor(identity, roomName, key, second) ==
    memo.issuable[
        (IndexOf(TokenIdentities, identity) - 1)
            * Len(TokenRooms) * Len(TokenKeys) * (MaxTime + 1)
        + (IndexOf(TokenRooms, roomName) - 1) * Len(TokenKeys) * (MaxTime + 1)
        + (IndexOf(TokenKeys, key) - 1) * (MaxTime + 1)
        + second + 1]

NextBoundary ==
    \/ NextToken
    \/ \E h \in BagToSet(inflight) : ParseBodyRejects(h)
    \/ \E h \in BagToSet(inflight) : StartEgressRejects(h)
    \/ \E h \in BagToSet(inflight) : StopEgressRejects(h)

SpecBoundary == InitToken /\ [][NextBoundary]_vars

\* The status codes of the servers, and the events that are exceptions.
StatusCodes == {200, 400, 404, 409, 500}
Rejections == {"parseBody rejected", "startEgress rejected", "stopEgress rejected"}

\* The step sends the one response of the handler h that resumed in it: a
\* status code for h's request, and h is not in flight any more.
AnswersOnce(h) ==
    /\ resp'.req.method = h.req.method
    /\ resp'.req.action = h.req.action
    /\ resp'.status \in StatusCodes
    /\ Joined = {}
    /\ BagCardinality(inflight') = BagCardinality(inflight) - 1

AtEgressCall == {"startEgress", "stopEgress"}

\* C22: a request makes at most one call of the egress service (a handler
\* suspended at its call has made one, a response reports at most one); when
\* the call rejects, the step sends the 500 of that same request, with the one
\* call made and no further call pending, and the service is left as it was.
C22_OneCall ==
    [][/\ \A h \in BagToSet(inflight) :
            h.calls = (IF h.pc \in AtEgressCall THEN 1 ELSE 0)
       /\ resp'.calls \in {0, 1}
       /\ \A h \in Left :
            (h.pc \in AtEgressCall /\ egress' = egress) =>
                /\ resp'.req = h.req
                /\ resp'.status = 500
                /\ "error" \in DOMAIN resp'.body
                /\ resp'.calls = 1
                /\ resp'.after \in {"startEgress rejected", "stopEgress rejected"}
                /\ Joined = {}
                /\ inflight' = inflight (-) SetToBag({h})]_vars

\* A stop whose one call of stopEgress rejected has been answered, and no
\* request is in flight.
C22_Witness ==
    /\ resp.after = "stopEgress rejected"
    /\ resp.calls = 1
    /\ resp.req.action = "stop"
    /\ inflight = EmptyBag

\* ------------------------------------------------- what changes a room's record

\* The step is the resolution of the startRoomCompositeEgress awaited by a
\* start for room r: the service has a new session for r, 200 is answered.
StartSucceeded(r) ==
    \E h \in Left :
        /\ h.pc = "startEgress"
        /\ h.req.action = "start"
        /\ h.req.room = r
        /\ egress' = EgressStarted(r)
        /\ resp'.req = h.req
        /\ resp'.status = 200

\* The step is the resolution of the stopEgress awaited by a stop that was
\* sent with room r: the service has ended the session, 200 is answered.
StopSucceeded(r) ==
    \E h \in Left :
        /\ h.pc = "stopEgress"
        /\ h.req.action = "stop"
        /\ h.req.room = r
        /\ EgressRunning(h.targetEgressId)
        /\ egress' = EgressStopped(h.targetEgressId)
        /\ resp'.req = h.req
        /\ resp'.status = 200

\* C23: a room gets a record only in the step of a start for that room whose
\* call succeeded, and loses it only in the step of a stop sent with that room
\* whose call succeeded; a step that is neither leaves the room's record as it
\* is, and so does every step that answers 400, 404, 409 or 500, answers a
\* status request, or suspends a handler.
C23_Frame ==
    [][\A r \in Rooms :
         /\ (~Has(r) /\ activeRecordings'[r] # NoRecord) => StartSucceeded(r)
         /\ (Has(r) /\ activeRecordings'[r] = NoRecord) => StopSucceeded(r)
         /\ activeRecordings'[r] # activeRecordings[r] =>
               StartSucceeded(r) \/ StopSucceeded(r)
         /\ (\/ resp'.status \in {400, 404, 409, 500}
             \/ resp'.req.action = "status"
             \/ resp' = NoResponse
             \/ resp'.req.room # r) => activeRecordings'[r] = activeRecordings[r]]_vars

\* A stop for one room has succeeded and removed its record, and the other
\* room, recorded meanwhile, still has its own.
C23_Witness ==
    /\ resp.after = "stopEgress resolved"
    /\ resp.req.room \in Rooms
    /\ ~Has(resp.req.room)
    /\ \E r \in Rooms : Has(r) /\ egress[Get(r).egressId].active

\* ------------------------------------------------ a stop and the record it removes

\* C24: when the step of a stop removes a room's record, the egress id of the
\* removed record is the one the stop passed to stopEgress.
C24_StopRemovesItsSession ==
    [][\A r \in Rooms : \A h \in Left :
          (h.pc = "stopEgress" /\ Has(r) /\ activeRecordings'[r] = NoRecord) =>
              activeRecordings[r].egressId = h.targetEgressId]_vars

\* ------------------------------------------------------ requests that are refused

\* A stop without room and egressId, a status request without room and, for
\* the serverless handler, a request whose action is none of the three (the
\* OPTIONS preflight is answered before the action is read).
MissingParameters(q) ==
    \/ q.action = "stop" /\ q.room = "" /\ q.egressId = 0
    \/ q.action = "status" /\ q.room = ""
    \/ /\ deployment = "serverless"
       /\ q.method # "OPTIONS"
       /\ q.action \notin {"start", "stop", "status"}

\* C25 as stated: such a request is answered 400, calls the egress service
\* not at all and leaves the Map as it is.
C25_Original ==
    [][\A q \in Requests : (MissingParameters(q) /\ Dispatched(q)) =>
            /\ resp'.req = q
            /\ resp'.status = 400
            /\ NoEgressCall
            /\ activeRecordings' = activeRecordings]_vars

\* C25 as amended: such a request is answered 400 where it passes the
\* credential checks that precede the routing, and 500 where it does not;
\* either way it calls the egress service not at all and leaves the Map as
\* it is.
C25_Refused ==
    [][\A q \in Requests : (MissingParameters(q) /\ Dispatched(q)) =>
            /\ resp'.req = q
            /\ resp'.status = IF PassesCredentialCheck THEN 400 ELSE 500
            /\ "error" \in DOMAIN resp'.body
            /\ NoEgressCall
            /\ activeRecordings' = activeRecordings]_vars

\* A stop without room and egressId has been answered 400 while a room had a
\* record and another request was in flight.
C25_Witness ==
    /\ resp.req.action = "stop"
    /\ resp.req.room = ""
    /\ resp.req.egressId = 0
    /\ resp.status = 400
    /\ \E R \in Rooms : Has(R)
    /\ inflight # EmptyBag

\* -------------------------------------- a service that answers every call

\* The start requests in flight, each of which may ask for a session.
StartsInFlight ==
    LET starts == {h \in BagToSet(inflight) : h.req.action = "start"}
    IN  BagCardinality([h \in starts |-> CopiesIn(h, inflight)])

\* A request arrives; a start is admitted while the service has a session
\* left for it, so that every call made can be answered.
Issue(q) ==
    /\ q.action = "start" => Len(egress) + StartsInFlight < MaxEgress
    /\ Receive(q)

\* stopEgress resolves, with the record kept when the Map holds the record of
\* another session than the one stopped.
StopEgressSucceeds_DeletesOwnSession(h) ==
    /\ h.pc = "stopEgress"
    /\ egress' = IF h.targetEgressId \in DOMAIN egress
                 THEN EgressStopped(h.targetEgressId) ELSE egress
    /\ activeRecordings' = IF Get(h.req.room).egressId = h.targetEgressId
                           THEN MapDelete(h.req.room) ELSE activeRecordings
    /\ Settle(SetToBag({h}), IF deployment = "serverless" THEN stopRecordingResult(h)
                             ELSE LocalStopRecordingResult(h),
              "stopEgress resolved")
    /\ UNCHANGED <<client, memo, deployment, unset, now>>

\* stopEgress resolves whatever the session: the handler deletes the room's
\* record and answers 200.
StopEgressSucceeds(h) ==
    /\ h.pc = "stopEgress"
    /\ egress' = IF h.targetEgressId \in DOMAIN egress
                 THEN EgressStopped(h.targetEgressId) ELSE egress
    /\ activeRecordings' = IF deployment = "serverless" THEN stopRecordingMap(h)
                           ELSE LocalStopRecordingMap(h)
    /\ Settle(SetToBag({h}), IF deployment = "serverless" THEN stopRecordingResult(h)
                             ELSE LocalStopRecordingResult(h),
              "stopEgress resolved")
    /\ UNCHANGED <<client, memo, deployment, unset, now>>

\* The requests that reach the service arrive: the starts for a room and the
\* stops for a room or a session.
NextLive ==
    \/ \E q \in StartRequests \cup StopRequests : Issue(q)
    \/ \E h \in BagToSet(inflight), b \in Requests : ParseBodyResolves(h, b)
    \/ \E h \in BagToSet(inflight) : StartEgressResolves(h)
    \/ \E h \in BagToSet(inflight) : StopEgressSucceeds(h)

\* Every pending promise settles: the body of each request is read, and the
\* service answers the call of each request.
Fairness ==
    /\ \A a \in {"start", "stop"} :
          WF_vars(\E h \in BagToSet(inflight), b \in Requests :
                      h.req.action = a /\ ParseBodyResolves(h, b))
    /\ \A q \in StartRequests :
          WF_vars(\E h \in BagToSet(inflight) : h.req = q /\ StartEgressResolves(h))
    /\ \A q \in StopRequests :
          WF_vars(\E h \in BagToSet(inflight) : h.req = q /\ StopEgressSucceeds(h))

SpecLive == Init /\ [][NextLive]_vars /\ Fairness

\* A start, a stop for room r has made its call and awaits the answer.
StartAwaits(r) ==
    \E h \in BagToSet(inflight) : h.pc = "startEgress" /\ h.req.room = r
StopAwaits(r) ==
    \E h \in BagToSet(inflight) : h.pc = "stopEgress" /\ h.req.room = r

\* C26: with a service that answers every call, a start for a room that
\* passed the membership check leads to the room having a record; a stop for
\* a room with a record leads to the room having none; and whenever a room has
\* no record, a start for it passes the membership check and makes its call.
C26_Progress ==
    /\ \A r \in Rooms : StartAwaits(r) ~> Has(r)
    /\ \A r \in Rooms : (Has(r) /\ StopAwaits(r)) ~> ~Has(r)
    /\ [](\A r \in Rooms, i \in IdentityParams :
             ~Has(r) => StartOf(r, i).pc = "startEgress")

\* A room was recorded, its session stopped, and a new start for the room has
\* succeeded with the next session.
C26_Witness ==
    /\ resp.after = "startEgress resolved"
    /\ resp.status = 200
    /\ resp.body.egressId = 2
    /\ egress[1].room = resp.req.room
    /\ ~egress[1].active
    /\ Get(resp.req.room).egressId = 2

\* ------------------------------------------------- requests of any method

\* The requests of the three actions sent with GET or with POST, an OPTIONS
\* preflight, and a request for anything else.
AnyMethodRequests ==
    RequestsBy({"GET", "POST"})
    \cup {[NoRequest EXCEPT !.method = "OPTIONS"],
          [NoRequest EXCEPT !.method = "GET", !.action = "other"]}

NextMethods ==
    \/ \E q \in AnyMethodRequests : Receive(q)
    \/ \E h \in BagToSet(inflight), b \in Requests : ParseBodyResolves(h, b)
    \/ \E h \in BagToSet(inflight) : StartEgressResolves(h)
    \/ \E h \in BagToSet(inflight) : StopEgressResolves(h)

\* The two servers, with all credentials, receiving requests of any method.
SpecMethods == Init /\ [][NextMethods]_vars

\* What the local server does with request q once it has read its body: the
\* route's code up to the call of the egress service or the response.
LocalEndpoint(q) ==
    LET s == LocalHandler(q) IN
    IF s.pc # "parseBody" THEN s
    ELSE IF q.action = "start" THEN LocalStartRecording([s EXCEPT !.req = q])
    ELSE LocalStopRecording([s EXCEPT !.req = q])

\* The session metadata of a response body.
MetadataKeys == {"success", "isRecording", "egressId", "startedBy", "startedAt",
                 "filepath"}
Metadata(body) == [k \in DOMAIN body \cap MetadataKeys |-> body[k]]

\* Two handlers stand at the same place with the same call made or the same
\* status code and session metadata answered.
SameOutcome(a, b) ==
    /\ a.pc = b.pc
    /\ a.status = b.status
    /\ a.calls = b.calls
    /\ a.filepath = b.filepath
    /\ a.targetEgressId = b.targetEgressId
    /\ a.recordingInfo = b.recordingInfo
    /\ Metadata(a.body) = Metadata(b.body)

\* In the current state the two servers do the same with request q, and the
\* same with every answer to the call a handler in flight awaits.
SameStep(q) == SameOutcome(ServerlessHandler(q), LocalEndpoint(q))
SameContinuation(h) ==
    /\ h.pc = "startEgress" =>
        /\ \A id \in 1..MaxEgress :
              /\ startRecordingRecord(h, id) = LocalStartRecordingRecord(h, id)
              /\ SameOutcome(startRecordingResult(h, id),
                             LocalStartRecordingResult(h, id))
        /\ SameOutcome(ServerlessCatch(h), LocalStartRecordingCatch(h))
    /\ h.pc = "stopEgress" =>
        /\ stopRecordingMap(h) = LocalStopRecordingMap(h)
        /\ SameOutcome(stopRecordingResult(h), LocalStopRecordingResult(h))
        /\ SameOutcome(ServerlessCatch(h), LocalStopRecordingCatch(h))

\* C27: whenever a server takes up a start, stop or status request, or an
\* answer to the call a handler awaits, the serverless handler and the local
\* endpoints do the same with it in that state: the same call or the same
\* status code and session metadata, and the same Map.
C27_Equivalent ==
    [][/\ \A q \in AnyMethodRequests :
            (q.action \in {"start", "stop", "status"} /\ Dispatched(q)) => SameStep(q)
       /\ \A h \in Left : SameContinuation(h)]_vars

\* The same for the requests sent with the documented methods only: POST to
\* start and to stop, GET for the status.
C27_DocumentedMethods ==
    [][/\ \A q \in RecordingRequests : Dispatched(q) => SameStep(q)
       /\ \A h \in Left : SameContinuation(h)]_vars

\* C28: in the serverless handler, a step that runs the code of a request
\* sent with another method than POST (at its arrival, or when a call it
\* awaits is answered) makes no call of the egress service and leaves the Map
\* as it is.
C28_PostOnly ==
    [][\A q \in AnyMethodRequests :
          (/\ deployment = "serverless"
           /\ q.method # "POST"
           /\ \/ resp'.req = q
              \/ \E h \in Joined \cup Left : h.req = q) =>
              /\ resp'.calls = 0
              /\ \A h \in Joined : h.req = q => h.pc \notin AtEgressCall
              /\ \A h \in Left : h.req = q => h.pc \notin AtEgressCall
              /\ activeRecordings' = activeRecordings]_vars

\* -------------------------------------- the browser's recording controls

\* const MIN_RECORDING_TIME_MS = 10000
MIN_RECORDING_TIME_MS == 10000

\* The effect with the dependencies [isRecording, recordingStartTime]: the
\* cleanup of its last run (clearTimeout), then its body.  The timer holds the
\* instant at which its callback is due.
canStopRecordingEffect(c) ==
    IF c.isRecording /\ c.recordingStartTime # 0
    THEN IF c.dateNow - c.recordingStartTime >= MIN_RECORDING_TIME_MS
         THEN [c EXCEPT !.canStopRecording = TRUE, !.timer = 0]
         ELSE [c EXCEPT !.timer = c.recordingStartTime + MIN_RECORDING_TIME_MS]
    ELSE [c EXCEPT !.canStopRecording = FALSE, !.timer = 0]

\* The render after a state update: the effect runs when one of its
\* dependencies has changed.
Render(c) ==
    IF <<c.isRecording, c.recordingStartTime>>
           # <<client.isRecording, client.recordingStartTime>>
    THEN canStopRecordingEffect(c)
    ELSE c

\* The recording button is enabled, and what a click on it runs.
ButtonEnabled == ~client.recordingLoading
ButtonStops == client.isRecording

ServerUnchanged == UNCHANGED <<deployment, unset, activeRecordings, egress, now,
                               inflight, resp, memo>>

\* A click while the button shows "Start Recording": handleStartRecording up
\* to its fetch.
ClickStart ==
    /\ ButtonEnabled
    /\ ~ButtonStops
    /\ client' = Render([client EXCEPT !.recordingLoading = TRUE,
                                       !.pending = "start"])
    /\ ServerUnchanged

\* The answer to the start: 200 and 409 both mean that the room is recorded.
StartResponds(status, id) ==
    /\ client.pending = "start"
    /\ client' = Render(
          IF status \in {200, 409}
          THEN [client EXCEPT !.isRecording = TRUE, !.egressId = id,
                              !.recordingLoading = FALSE, !.pending = "none",
                              !.began = IF client.isRecording THEN @
                                        ELSE client.dateNow]
          ELSE [client EXCEPT !.recordingLoading = FALSE, !.pending = "none"])
    /\ ServerUnchanged

\* A click while the button shows "Stop Recording": handleStopRecording up to
\* its fetch, which sends the stop request.
ClickStop ==
    /\ ButtonEnabled
    /\ ButtonStops
    /\ client' = Render([client EXCEPT !.recordingLoading = TRUE,
                                       !.pending = "stop"])
    /\ ServerUnchanged

\* The answer to the stop.
StopResponds(status) ==
    /\ client.pending = "stop"
    /\ client' = Render(
          IF status = 200
          THEN [client EXCEPT !.isRecording = FALSE, !.egressId = 0,
                              !.recordingLoading = FALSE, !.pending = "none",
                              !.began = -1]
          ELSE [client EXCEPT !.recordingLoading = FALSE, !.pending = "none"])
    /\ ServerUnchanged

\* The answer to a status poll (on mount and every 5 seconds).
StatusResponds(isRecording, id) ==
    /\ client' = Render(
          IF isRecording
          THEN [client EXCEPT !.isRecording = TRUE, !.egressId = id,
                              !.began = IF client.isRecording THEN @
                                        ELSE client.dateNow]
          ELSE [client EXCEPT !.isRecording = FALSE, !.began = -1])
    /\ ServerUnchanged

\* The callback of the effect's setTimeout.  No code of the component calls
\* setRecordingStartTime, so the effect never sets the timer and the callback
\* never runs: it is not among the steps of NextClient.
TimerFires ==
    /\ client.timer # 0
    /\ client.dateNow >= client.timer
    /\ client' = [client EXCEPT !.canStopRecording = TRUE, !.timer = 0]
    /\ ServerUnchanged

\* Time passes in the browser.
ClientTick ==
    /\ client.dateNow < MaxDateNow
    /\ client' = [client EXCEPT !.dateNow = @ + ClockStep]
    /\ ServerUnchanged

NextClient ==
    \/ ClickStart
    \/ \E status \in {200, 409, 500}, id \in 1..MaxEgress : StartResponds(status, id)
    \/ ClickStop
    \/ \E status \in {200, 404, 500} : StopResponds(status)
    \/ \E isRecording \in BOOLEAN, id \in 1..MaxEgress : StatusResponds(isRecording, id)
    \/ ClientTick

SpecClient == Init /\ [][NextClient]_vars

\* C29: the step in which the client sends a stop request is taken with
\* canStopRecording true and, where the component has seen the recording
\* begin, at least MIN_RECORDING_TIME_MS after that instant.
C29_StopAfterMinimum ==
    [][(client.pending # "stop" /\ client'.pending = "stop") =>
          /\ client.canStopRecording
          /\ client.began >= 0 =>
                client.dateNow - client.began >= MIN_RECORDING_TIME_MS]_vars

\* ---------------------------------------------------- the path of a record

\* `recordings/${room}/${timestamp}.ogg` with the timestamp of the ISO string
\* iso.
PathAt(room, iso) == <<"recordings/", room, "/">> \o ReplaceColonDot(iso) \o <<".ogg">>

\* C30: every record's path is recordings/<room>/<timestamp>.ogg with the
\* record's key and the record's startedAt; the start that inserts a record
\* answers with the path it sent to the service, which is the record's; the
\* stop that removes a record answers with that record's path.
C30_Path ==
    [][/\ \A r \in Rooms :
            activeRecordings'[r] # NoRecord =>
                activeRecordings'[r].filepath = PathAt(r, activeRecordings'[r].startedAt)
       /\ \A h \in Left :
            (h.pc = "startEgress" /\ resp'.status = 200) =>
                /\ resp'.body.filepath = h.filepath
                /\ activeRecordings'[h.req.room].filepath = h.filepath
       /\ \A h \in Left : \A r \in Rooms :
            (h.pc = "stopEgress" /\ Has(r) /\ activeRecordings'[r] = NoRecord) =>
                /\ "filepath" \in DOMAIN resp'.body
                /\ resp'.body.filepath = activeRecordings[r].filepath]_vars

\* What holds of the paths: a record's path is that of its key and of an
\* instant not later than its startedAt, and the start that inserts the record
\* answers with the path it sent to the service, which is the record's.
C30_PathOfRequestTime ==
    [][/\ \A r \in Rooms :
            activeRecordings'[r] # NoRecord =>
                \E t \in 0..MaxTime, u \in 0..MaxTime :
                    /\ t <= u
                    /\ activeRecordings'[r].filepath = Filepath(r, t)
                    /\ activeRecordings'[r].startedAt = ToISOString(u)
       /\ \A h \in Left :
            (h.pc = "startEgress" /\ resp'.status = 200) =>
                /\ resp'.body.filepath = h.filepath
                /\ activeRecordings'[h.req.room].filepath = h.filepath]_vars

====
